---------------------------- MODULE Spec2Model ----------------------------
(***************************************************************************)
(* Phosphor SID player: the player thread (src/src/player/mod.rs), its     *)
(* frame runners and the conversion of captured SID writes to the delta    *)
(* form handed to the output device.                                       *)
(***************************************************************************)
EXTENDS Integers, Sequences, FiniteSets, TLC

VARIABLES
    pc,            \* position of the player thread / of the frame runner
    state,         \* PlayState: "Stopped" | "Playing" | "Paused"
    play_ctx,      \* Option<PlayContext>: NoCtx or a context record
    bridge,        \* Option<Box<dyn SidDevice>>: NoDev or the open device
    last_error,    \* Option<String>: NoErr or an error tag
    engine_name,   \* name handed to create_engine on the next open
    cmd_q,         \* commands in flight on the command channel
    cmd_open,      \* TRUE while the shell still holds the Sender
    published,     \* the PlayerStatus handed to the last try_send
    dev_ops,       \* device calls made by the step just taken, in order
    handled,       \* the command being handled, or handled by the step just taken
    now,           \* monotonic clock, microseconds since the context's creation
    pace,          \* history: [base, n], the deadline n frames ago, none late since
    frame_dur,     \* player_loop's local frame_dur (0 outside the Playing arm)
    status_n,      \* statuses in the status channel the shell has not read
    polling,       \* TRUE while the shell's tick drains the status channel
    sid_writes,    \* captured (frame_cycle, reg, val) of the current frame
    frame_cycle,   \* bus.frame_cycle
    cycles_done,   \* run_rsid_sub_emu's local cycle counter
    steps,         \* run_until's loop counter
    batch,         \* what the frame handed to ring_cycled (NoCall if nothing)
    frame_ops,     \* number of runner steps taken in the current frame
    c64,           \* RsidBus.c64: the C64 core (irq_count, vic, cia1, cia2)
    cia,           \* a player::memory::Cia (the CIA of C64Memory)
    chip_op,       \* what the chip operation just taken did and returned
    raster,        \* a VIC-II raster counter and the lines it has taken
    port,          \* the 6510 port ($00/$01) of a bus and the last access
    rsid,          \* the RSID runners: CPU flags, interrupt lines, deliveries
    wire,          \* bridge client, socket and usbsid-bridge daemon
    emu,           \* the emulated sink: frame accumulator and audio ring
    eval,          \* a function of the program applied to inputs, and its result
    tod,           \* a CIA's Time-of-Day clock and the ticks it has counted
    vicirq         \* the interrupt registers of a VIC-II

playerVars == <<state, play_ctx, bridge, last_error, engine_name, cmd_q,
                cmd_open, published, dev_ops, handled, now, pace, frame_dur,
                status_n, polling>>
frameVars  == <<sid_writes, frame_cycle, cycles_done, steps, batch, frame_ops>>
chipVars   == <<c64, cia, chip_op>>
partVars   == <<raster, port, rsid, wire, emu, eval, tod, vicirq>>
vars       == <<pc, state, play_ctx, bridge, last_error, engine_name, cmd_q,
                cmd_open, published, dev_ops, handled, now, pace, frame_dur,
                status_n, polling, sid_writes,
                frame_cycle, cycles_done, steps, batch, frame_ops,
                c64, cia, chip_op, raster, port, rsid, wire, emu,
                eval, tod, vicirq>>

---------------------------------------------------------------------------
(* Program constants *)

SID_REG_SIZE == 32
SID_VOL_REG == 24
PAL_CYCLES_PER_FRAME == 19705
NTSC_CYCLES_PER_FRAME == 17045
PAL_FRAME_US == 20000
NTSC_FRAME_US == 16667
DELTA_MAX == 65535
PSID_MAX_STEPS == 200000
INT_CYCLES == 7
HEADER_MIN_LEN == 118
HEADER_V2_LEN == 124
STATUS_CAP == 16

(* Bounds of the model *)

MaxWrites == 2
MaxFrameOps == 3
MaxCmds == 1
MaxFrames == 2
MaxPacedFrames == 1
MaxLag == 30000
MaxCycles == 4
MaxLatch == 2
MaxTick == 5
MaxCounted == 12
MaxInitCycles == 6
ReadyCheckCycles == 4
SubFrameCycles == 4
MaxRsidFrames == 2
MaxOps == 3
MaxClients == 2
MaxBufferSamples == 3
MaxSamplesPerClock == 2
MaxOutFrames == 2
MaxEmuFrames == 2
MaxComponents == 3
TodRate == 3
MaxTodCycles == 6
MaxVicCycles == 70

NoCtx  == [engine |-> "None"]
NoDev  == [name |-> "None"]
NoErr  == "NoErr"
NoCmd  == [cmd |-> [type |-> "None"], native |-> "uncalled", hw |-> "uncalled"]
NoCall == "NoCall"
NoStatus == [state |-> "None"]
NoC64  == [irq_count |-> 0]
NoCia  == [int_data |-> {}]
NoOp   == [op |-> "None"]
NoRaster == [kind |-> "None"]
NoPort == [bus |-> "None"]
NoRsid == [phase |-> "None"]
NoWire == [client |-> "None"]
NoEmu  == [ring |-> <<>>]
NoEval == [fn |-> "None"]
NoTod == [period |-> 0]
NoVicIrq == [chip |-> "None"]

\* the parts of the program a specification does not run
PartsIdle ==
    /\ raster = NoRaster
    /\ port = NoPort
    /\ rsid = NoRsid
    /\ wire = NoWire
    /\ emu = NoEmu
    /\ eval = NoEval
    /\ tod = NoTod
    /\ vicirq = NoVicIrq

Min(a, b) == IF a < b THEN a ELSE b
Max(a, b) == IF a > b THEN a ELSE b

---------------------------------------------------------------------------
(* SID files.  A file is the record of the header fields the player reads; *)
(* len is the length of the file in bytes.                                 *)

DecodeSidAddrByte(b) ==
    IF b >= 66 /\ (b <= 127 \/ b >= 224) /\ b % 2 = 0
    THEN 53248 + b * 16
    ELSE 0

\* parse_header: Err for a short file or a bad magic, else the header.
ParseHeader(f) ==
    IF f.len < HEADER_MIN_LEN THEN [ok |-> FALSE, err |-> "short"]
    ELSE IF f.magic # "PSID" /\ f.magic # "RSID" THEN [ok |-> FALSE, err |-> "magic"]
    ELSE LET v2 == f.version >= 2 /\ f.len >= HEADER_V2_LEN
         IN  [ok |-> TRUE,
              magic |-> f.magic,
              is_rsid |-> f.magic = "RSID",
              is_pal |-> IF v2 THEN f.clock # 2 ELSE TRUE,
              data_offset |-> f.data_offset,
              load_address |-> f.load_address,
              play_address |-> f.play_address,
              sid2 |-> IF v2 /\ f.version >= 3 THEN DecodeSidAddrByte(f.sid2) ELSE 0,
              sid3 |-> IF v2 /\ f.version >= 4 THEN DecodeSidAddrByte(f.sid3) ELSE 0]

\* load_sid: the header, or Err when the payload does not fit the file.
LoadSid(f) ==
    LET h == ParseHeader(f)
    IN  IF ~h.ok THEN h
        ELSE IF h.data_offset >= f.len THEN [ok |-> FALSE, err |-> "offset"]
        ELSE IF h.load_address = 0 /\ h.data_offset + 2 > f.len
             THEN [ok |-> FALSE, err |-> "embedded"]
        ELSE h

\* SidHeader::frame_us
FrameUs(is_pal) == IF is_pal THEN PAL_FRAME_US ELSE NTSC_FRAME_US

CyclesPerFrame(is_pal) ==
    IF is_pal THEN PAL_CYCLES_PER_FRAME ELSE NTSC_CYCLES_PER_FRAME

---------------------------------------------------------------------------
(* send_sid_writes: captured (cycle, reg, val) to (delta, reg, val).       *)

CycleDeltaWrapping(cycle, prev_cycle) ==
    (IF cycle >= prev_cycle THEN cycle - prev_cycle ELSE 0) % (DELTA_MAX + 1)

\* cycle.saturating_sub(prev_cycle).min(0xFFFF) as u16
CycleDelta(cycle, prev_cycle) ==
    Min(IF cycle >= prev_cycle THEN cycle - prev_cycle ELSE 0, DELTA_MAX)

MirrorEntriesAll(delta, reg, val) ==
    << <<delta, reg, val>>, <<0, (reg + SID_REG_SIZE) % 256, val>> >>

\* the body of the mono loop: the write, then its copy for the second SID
MirrorEntries(delta, reg, val) ==
    IF reg <= SID_VOL_REG
    THEN << <<delta, reg, val>>, <<0, (reg + SID_REG_SIZE) % 256, val>> >>
    ELSE << <<delta, reg, val>> >>

RECURSIVE SendLoop(_, _, _, _)
SendLoop(writes, i, prev_cycle, mirror_mono) ==
    IF i > Len(writes) THEN <<>>
    ELSE LET cycle == writes[i][1]
             reg   == writes[i][2]
             val   == writes[i][3]
             delta == CycleDelta(cycle, prev_cycle)
         IN  (IF mirror_mono
              THEN MirrorEntries(delta, reg, val)
              ELSE << <<delta, reg, val>> >>)
             \o SendLoop(writes, i + 1, cycle, mirror_mono)

\* The batch handed to ring_cycled, or NoCall when nothing was captured.
SendSidWrites(writes, mirror_mono) ==
    IF writes = <<>> THEN NoCall ELSE SendLoop(writes, 1, 0, mirror_mono)


---------------------------------------------------------------------------
(* Playback contexts (setup_playback) *)

\* is_rsid as handle_cmd computes it before setup_playback
IsRsid(h) == h.is_rsid \/ (h.play_address = 0 /\ h.magic = "PSID")

\* sid_bases.len(): $D400, the header's extra SIDs, the sid4 option
NumSids(h, sid4_addr) ==
    1 + (IF h.sid2 # 0 THEN 1 ELSE 0) + (IF h.sid3 # 0 THEN 1 ELSE 0)
      + (IF sid4_addr # 0 THEN 1 ELSE 0)

\* The PlayContext setup_playback returns.
SetupPlayback(h, path, song, sid4_addr, is_rsid, t) ==
    [engine |-> IF is_rsid THEN "Rsid" ELSE "Psid",
     path |-> path,
     song |-> song,
     is_pal |-> h.is_pal,
     frame_us |-> FrameUs(h.is_pal),
     cycles_per_frame |-> CyclesPerFrame(h.is_pal),
     mirror_mono |-> NumSids(h, sid4_addr) = 1,
     num_sids |-> NumSids(h, sid4_addr),
     frame_count |-> 0,
     elapsed |-> 0,
     next_frame |-> t]

\* how many SID writes the INIT routine of a tune may capture
InitWriteCounts == {0, 2}

\* The device calls setup_playback makes on an open device: the clock rate,
\* reset (and 50 ms of sleep), set_stereo, the volume of every active chip,
\* then one write for each SID write the engine captured while INIT ran.
SetupOps(h, sid4_addr, init_writes) ==
    LET mono == NumSids(h, sid4_addr) = 1
        active_sids == IF mono THEN 2 ELSE NumSids(h, sid4_addr)
    IN  <<"set_clock_rate", "reset", "set_stereo">>
        \o [i \in 1..active_sids |-> "write"]
        \o [i \in 1..init_writes |-> "write"]

---------------------------------------------------------------------------
(* The frame runners, one step per executed instruction.  The tune's code  *)
(* is the input: each instruction has a cycle count from the opcode table  *)
(* and may write one SID register.  A quiet run is a stretch of n          *)
(* instructions of k cycles each that write no SID register.               *)

StepCycles == 2..8
QuietRuns == {<<2434, 7>>, <<2814, 7>>, <<9400, 7>>, <<199998, 2>>}
CapturedRegs(ctx) == IF ctx.mirror_mono THEN {4, 24, 25} ELSE {24, 25, 56}
NoWrite == <<>>
\* the (reg, val) an instruction of the tune may store: the volume at 15,
\* any other register at $41
StepWrites(ctx) ==
    {NoWrite}
    \cup {<<r, IF r % SID_REG_SIZE = SID_VOL_REG THEN 15 ELSE 65>> :
             r \in CapturedRegs(ctx)}

FrameFiles ==
    [len : {4096}, magic : {"PSID", "RSID"}, version : {3},
     data_offset : {124}, load_address : {4096}, play_address : {4099},
     clock : {1, 2}, sid2 : {0, 66}, sid3 : {0}]

FrameContexts ==
    {SetupPlayback(LoadSid(f), "tune", 1, 0, IsRsid(LoadSid(f)), 0) : f \in FrameFiles}

\* Bus::set_byte on a mapped SID register: push (frame_cycle, reg, value)
Capture(writes, cycle, w) ==
    IF w = NoWrite THEN writes ELSE Append(writes, <<cycle, w[1], w[2]>>)

\* the cycle stamp a write of the instruction being stepped gets
StepCapture(writes, cycle, w, inst_cycles) == Capture(writes, cycle, w)

TrySendUnbounded(n) == n + 1

\* Sender::try_send on the bounded status channel: a full channel drops
TrySend(n) == IF n < STATUS_CAP THEN n + 1 ELSE n

\* send_status: try_send the status; a polling shell drains the channel
\* (poll_status) before the next publication
SendStatus(st) ==
    /\ published' = [state |-> st.state, has_track |-> st.has_track,
                     elapsed |-> st.elapsed, error |-> st.error,
                     accepted |-> polling \/ status_n < STATUS_CAP]
    /\ status_n' = IF polling THEN 0 ELSE TrySend(status_n)
    /\ UNCHANGED polling

\* a step that publishes nothing
NoStatusSent ==
    /\ published' = NoStatus
    /\ UNCHANGED <<status_n, polling>>

\* the PlayerStatus send_status builds
MkStatus(st, ctx, err) ==
    [state |-> st,
     has_track |-> ctx # NoCtx,
     elapsed |-> IF ctx # NoCtx THEN ctx.elapsed ELSE 0,
     error |-> err]

\* next_frame += frame_dur; if next_frame < now { next_frame = now }
NextDeadline(next_frame, dur, t) ==
    IF next_frame + dur < t THEN t ELSE next_frame + dur

\* frame pacing up to the wait: the deadline moves on by frame_dur and snaps
\* to the clock when it is already past
AdvanceDeadline(to) ==
    /\ LET nf == NextDeadline(play_ctx.next_frame, frame_dur, now)
       IN  /\ play_ctx' = [play_ctx EXCEPT !.next_frame = nf]
           /\ pace' = IF play_ctx.next_frame + frame_dur < now
                      THEN [base |-> nf, n |-> 0]
                      ELSE [pace EXCEPT !.n = @ + 1]
    /\ pc' = to
    /\ dev_ops' = <<>>
    /\ handled' = NoCmd
    /\ NoStatusSent
    /\ UNCHANGED <<state, bridge, last_error, engine_name, cmd_q, cmd_open, now,
                   frame_dur>>
    /\ UNCHANGED <<frameVars, chipVars, partVars>>

\* frame pacing from the wait on: wait_until returns once the clock has
\* reached the deadline, the frame is counted, send_status publishes
CountFrame(to, dur) ==
    /\ LET ctx == [play_ctx EXCEPT !.frame_count = @ + 1,
                                   !.elapsed = @ + frame_dur]
       IN  /\ play_ctx' = ctx
           /\ SendStatus(MkStatus(state, ctx, last_error))
    /\ now' = Max(now, play_ctx.next_frame)
    /\ pc' = to
    /\ frame_dur' = dur
    /\ dev_ops' = <<>>
    /\ handled' = NoCmd
    /\ UNCHANGED <<state, bridge, last_error, engine_name, cmd_q, cmd_open, pace>>
    /\ UNCHANGED <<frameVars, chipVars, partVars>>

\* clear_writes, then PC := trampoline (PSID) or the sub-emu's counter := 0
FrameBegin ==
    /\ pc = "begin"
    /\ play_ctx.frame_count < MaxPacedFrames
    /\ sid_writes' = <<>>
    /\ frame_cycle' = 0
    /\ cycles_done' = 0
    /\ steps' = 0
    /\ batch' = NoCall
    /\ frame_ops' = 0
    /\ pc' = "run"
    /\ UNCHANGED <<playerVars, chipVars, partVars>>

\* run_until: one iteration that steps the CPU; at_halt says whether the
\* instruction left PC at the halt address.
PsidStep(c, w, at_halt) ==
    /\ pc = "run"
    /\ play_ctx.engine = "Psid"
    /\ steps < PSID_MAX_STEPS
    /\ frame_ops < MaxFrameOps
    /\ w # NoWrite => Len(sid_writes) < MaxWrites
    /\ sid_writes' = StepCapture(sid_writes, frame_cycle, w, c)
    /\ frame_cycle' = frame_cycle + c
    /\ steps' = steps + 1
    /\ frame_ops' = frame_ops + 1
    /\ pc' = IF at_halt \/ steps + 1 >= PSID_MAX_STEPS THEN "ran" ELSE "run"
    /\ UNCHANGED <<playerVars, chipVars, partVars, cycles_done, batch>>

\* run_until: n iterations that write no SID register, none reaching halt
PsidQuietRun(n, k) ==
    /\ pc = "run"
    /\ play_ctx.engine = "Psid"
    /\ steps + n < PSID_MAX_STEPS
    /\ frame_ops < MaxFrameOps
    /\ frame_cycle' = frame_cycle + n * k
    /\ steps' = steps + n
    /\ frame_ops' = frame_ops + 1
    /\ UNCHANGED <<pc, playerVars, chipVars, partVars, sid_writes, cycles_done, batch>>

\* run_rsid_sub_emu: one iteration; irq and nmi are the cycles of a
\* delivered IRQ and NMI (0 when none is delivered).
RsidStep(c, w, irq, nmi) ==
    /\ pc = "run"
    /\ play_ctx.engine = "Rsid"
    /\ cycles_done < play_ctx.cycles_per_frame
    /\ frame_ops < MaxFrameOps
    /\ w # NoWrite => Len(sid_writes) < MaxWrites
    /\ sid_writes' = StepCapture(sid_writes, frame_cycle, w, c)
    /\ cycles_done' = cycles_done + c + irq + nmi
    /\ frame_cycle' = frame_cycle + c + irq + nmi
    /\ frame_ops' = frame_ops + 1
    /\ pc' = IF cycles_done + c + irq + nmi >= play_ctx.cycles_per_frame
             THEN "ran" ELSE "run"
    /\ UNCHANGED <<playerVars, chipVars, partVars, steps, batch>>

\* run_rsid_sub_emu: n iterations that write no SID register and take no
\* interrupt; the last of them starts before the frame's cycles are done.
RsidQuietRun(n, k) ==
    /\ pc = "run"
    /\ play_ctx.engine = "Rsid"
    /\ cycles_done + (n - 1) * k < play_ctx.cycles_per_frame
    /\ frame_ops < MaxFrameOps
    /\ cycles_done' = cycles_done + n * k
    /\ frame_cycle' = frame_cycle + n * k
    /\ frame_ops' = frame_ops + 1
    /\ pc' = IF cycles_done + n * k >= play_ctx.cycles_per_frame
             THEN "ran" ELSE "run"
    /\ UNCHANGED <<playerVars, chipVars, partVars, sid_writes, steps, batch>>

\* send_sid_writes on the frame's captures, then flush
FrameSend ==
    /\ pc = "ran"
    /\ batch' = SendSidWrites(sid_writes, play_ctx.mirror_mono)
    /\ dev_ops' = (IF sid_writes = <<>> THEN <<>> ELSE <<"ring_cycled">>)
                  \o <<"flush">>
    /\ pc' = "sent"
    /\ UNCHANGED <<state, play_ctx, bridge, last_error, engine_name, cmd_q,
                   cmd_open, published, handled, now, pace, frame_dur,
                   status_n, polling>>
    /\ UNCHANGED <<sid_writes, frame_cycle, cycles_done, steps, frame_ops, chipVars, partVars>>

\* the frame's deadline: ctx.next_frame += frame_dur, snapped to the clock
FrameDue ==
    /\ pc = "sent"
    /\ AdvanceDeadline("due")

\* wait_until(ctx.next_frame), the frame is counted, send_status, and the
\* loop comes round to the next frame
FrameDone ==
    /\ pc = "due"
    /\ CountFrame("begin", frame_dur)

FrameInit ==
    /\ pc = "begin"
    /\ state = "Playing"
    /\ play_ctx \in FrameContexts
    /\ bridge = [name |-> "usb"]
    /\ last_error = NoErr
    /\ engine_name = "usb"
    /\ cmd_q = <<>>
    /\ cmd_open = TRUE
    /\ published = NoStatus
    /\ dev_ops = <<>>
    /\ handled = NoCmd
    /\ now = 0
    /\ pace = [base |-> 0, n |-> 0]
    /\ frame_dur = play_ctx.frame_us
    /\ status_n = 0
    /\ polling = TRUE
    /\ sid_writes = <<>>
    /\ frame_cycle = 0
    /\ cycles_done = 0
    /\ steps = 0
    /\ batch = NoCall
    /\ frame_ops = 0
    /\ c64 = NoC64
    /\ cia = NoCia
    /\ chip_op = NoOp
    /\ PartsIdle

FrameNext ==
    \/ FrameBegin
    \/ \E c \in StepCycles, w \in StepWrites(play_ctx), h \in BOOLEAN :
          PsidStep(c, w, h)
    \/ \E r \in QuietRuns : PsidQuietRun(r[1], r[2])
    \/ \E c \in StepCycles, w \in StepWrites(play_ctx), i \in {0, INT_CYCLES},
          n \in {0, INT_CYCLES} : RsidStep(c, w, i, n)
    \/ \E r \in QuietRuns : RsidQuietRun(r[1], r[2])
    \/ FrameSend
    \/ FrameDue
    \/ FrameDone

FrameSpec == FrameInit /\ [][FrameNext]_vars

---------------------------------------------------------------------------
(* What the batch of a frame must be, stated from the captures.            *)

\* position in the batch of the entry of the i-th captured write
EntryIndex(i) ==
    IF play_ctx.mirror_mono
    THEN i + Cardinality({j \in 1..(i - 1) : sid_writes[j][2] <= SID_VOL_REG})
    ELSE i

PrevCycle(i) == IF i = 1 THEN 0 ELSE sid_writes[i - 1][1]

RECURSIVE SumDeltas(_)
SumDeltas(b) == IF b = <<>> THEN 0 ELSE b[1][1] + SumDeltas(Tail(b))

\* C1: the batch handed to ring_cycled lists the frame's captured writes in
\* capture order with register and value unchanged; the delta of each is its
\* frame_cycle minus the frame_cycle of the previous captured write (0 at
\* frame start), never negative, and 65535 when the difference exceeds 65535.
C1_DeltaForm ==
    (pc = "sent" /\ batch # NoCall) =>
        /\ sid_writes # <<>>
        /\ \A i \in 1..Len(sid_writes) :
              LET diff == sid_writes[i][1] - PrevCycle(i)
                  e == batch[EntryIndex(i)]
              IN  /\ EntryIndex(i) <= Len(batch)
                  /\ diff >= 0
                  /\ e[1] >= 0
                  /\ e[1] = IF diff > 65535 THEN 65535 ELSE diff
                  /\ e[2] = sid_writes[i][2]
                  /\ e[3] = sid_writes[i][3]
        /\ \A k \in 1..Len(batch) :
              (\E i \in 1..Len(sid_writes) : EntryIndex(i) = k)
              \/ (play_ctx.mirror_mono /\ k > 1 /\ batch[k][1] = 0)

\* C1 witness: a batch of two captured writes, one of them saturated
C1_Witness ==
    /\ pc = "sent"
    /\ batch # NoCall
    /\ Len(sid_writes) = 2
    /\ \E i \in 1..2 : sid_writes[i][1] - PrevCycle(i) > 65535
    /\ \E i \in 1..2 : sid_writes[i][1] - PrevCycle(i) \in 1..65535

\* C2: the deltas of a frame's batch sum to at most cycles_per_frame, under
\* the PSID engine and under the RSID engine.
C2_DeltaSumWithinFrame ==
    (pc = "sent" /\ batch # NoCall) =>
        SumDeltas(batch) <= play_ctx.cycles_per_frame

\* C3: in mono-mirror mode a captured write with reg <= 0x18 is sent as its
\* entry followed at once by (0, reg + 0x20, val); one with reg > 0x18 is
\* sent exactly once and has no mirror entry.
C3_MonoMirror ==
    (pc = "sent" /\ batch # NoCall /\ play_ctx.mirror_mono) =>
        /\ \A i \in 1..Len(sid_writes) :
              LET r == sid_writes[i][2]
                  v == sid_writes[i][3]
                  k == EntryIndex(i)
              IN  /\ batch[k][2] = r /\ batch[k][3] = v
                  /\ IF r <= 24
                     THEN k + 1 <= Len(batch) /\ batch[k + 1] = <<0, r + 32, v>>
                     ELSE /\ Cardinality({m \in 1..Len(batch) :
                                             batch[m][2] = r + 32}) = 0
                          /\ (k + 1 <= Len(batch) =>
                                /\ i < Len(sid_writes)
                                /\ batch[k + 1][2] = sid_writes[i + 1][2])
        /\ Len(batch) = Len(sid_writes)
             + Cardinality({i \in 1..Len(sid_writes) : sid_writes[i][2] <= 24})

\* C3 witness: a mirrored frame holding a write at reg 0x18 and one at 0x19
C3_Witness ==
    /\ pc = "sent"
    /\ batch # NoCall
    /\ play_ctx.mirror_mono
    /\ \E i \in 1..Len(sid_writes) : sid_writes[i][2] = 24 /\ sid_writes[i][1] > 0
    /\ \E i \in 1..Len(sid_writes) : sid_writes[i][2] = 25

---------------------------------------------------------------------------
(* The player thread: player_loop, handle_cmd and their helpers.           *)

Paths == {"mono.sid", "stereo.sid", "bad.sid"}
EngineNames == {"usb", "u64"}
SubtuneSongs == {2}
Delays == {30000}

SidFileBytes(len, magic, data_offset, load_address, play_address, clock, sid2) ==
    [readable |-> TRUE, len |-> len, magic |-> magic, version |-> 3,
     data_offset |-> data_offset, load_address |-> load_address,
     play_address |-> play_address, clock |-> clock, sid2 |-> sid2, sid3 |-> 0]

Unreadable ==
    [readable |-> FALSE, len |-> 0, magic |-> "", version |-> 0,
     data_offset |-> 0, load_address |-> 0, play_address |-> 0, clock |-> 0,
     sid2 |-> 0, sid3 |-> 0]

\* std::fs::read(&path): what the file system may return for each path.  A
\* tune can disappear between two reads; bad.sid never holds a valid tune.
ReadResults(path) ==
    CASE path = "mono.sid" ->
            {SidFileBytes(4096, "PSID", 124, 4096, 4099, 1, 0), Unreadable}
      [] path = "stereo.sid" ->
            {SidFileBytes(4096, "RSID", 124, 0, 0, 2, 66), Unreadable}
      [] OTHER ->
            {Unreadable,
             SidFileBytes(100, "PSID", 124, 4096, 4099, 1, 0),
             SidFileBytes(4096, "RIFF", 124, 4096, 4099, 1, 0),
             SidFileBytes(200, "PSID", 200, 4096, 4099, 1, 0),
             SidFileBytes(200, "PSID", 199, 0, 4099, 1, 0)}

Commands ==
    {[type |-> "Play", path |-> p, song |-> 1, sid4_addr |-> 0] : p \in Paths}
    \cup {[type |-> "Stop"], [type |-> "TogglePause"], [type |-> "Quit"]}
    \cup {[type |-> "SetSubtune", song |-> g] : g \in SubtuneSongs}
    \cup {[type |-> "SetEngine", name |-> n] : n \in EngineNames}

\* U64Device::play_sid_native: Ok(true) after the upload, Err when it fails
U64PlaySidNative == {"true", "err"}

\* the trait's default play_sid_native, for sinks that do not play files
DefaultPlaySidNative == {"false"}

PlaySidNativeResults(name) ==
    IF name = "u64" THEN U64PlaySidNative ELSE DefaultPlaySidNative

\* the lightweight context handle_cmd builds for native playback
NativeContext(h, path, song, t) ==
    [engine |-> "Native",
     path |-> path,
     song |-> song,
     is_pal |-> h.is_pal,
     frame_us |-> FrameUs(h.is_pal),
     cycles_per_frame |-> CyclesPerFrame(h.is_pal),
     mirror_mono |-> FALSE,
     num_sids |-> NumSids(h, 0),
     frame_count |-> 0,
     elapsed |-> 0,
     next_frame |-> t]

\* stop_playback: the device calls it makes (the context is then None)
StopPlaybackOps(ctx, br) ==
    IF ctx # NoCtx /\ br # NoDev
    THEN <<"flush", "mute", "set_stereo", "reset">>
    ELSE <<>>

CleanupOpsNoReset(br) ==
    IF br # NoDev THEN <<"flush", "mute", "close", "shutdown">> ELSE <<>>

\* cleanup: the device calls it makes (the device is then None)
CleanupOps(br) ==
    IF br # NoDev THEN <<"flush", "mute", "reset", "close", "shutdown">> ELSE <<>>

\* what a handler leaves behind
Outcome(st, ctx, br, err, eng, ops, native, hw) ==
    [state |-> st, play_ctx |-> ctx, bridge |-> br, last_error |-> err,
     engine_name |-> eng, dev_ops |-> ops, native |-> native, hw |-> hw]

\* what create_engine and init may do: both Ok, create_engine Err, or
\* create_engine Ok and init Err
HwResults == {"ok", "create_err", "init_err"}

\* ensure_hardware: the open device, a newly opened one, or NoDev on Err
EnsureHardware(br, name, hw) ==
    IF br # NoDev THEN br
    ELSE IF hw = "ok" THEN [name |-> name] ELSE NoDev

\* ensure_hardware: the device calls it makes.  A device whose init fails
\* has been opened and is dropped by the `?`, without close.
EnsureOps(br, hw) ==
    IF br # NoDev \/ hw = "create_err" THEN <<>> ELSE <<"open", "init">>

PlayDeviceErrorSilent(ops) ==
    Outcome("Stopped", NoCtx, NoDev, NoErr, engine_name, ops, "uncalled", "err")

\* Play, ensure_hardware returned Err: the error, Stopped, status, return
PlayDeviceError(ops) ==
    Outcome("Stopped", NoCtx, NoDev, "open", engine_name, ops, "uncalled", "err")

\* handle_cmd, PlayerCmd::Play.  hw: what create_engine and init return;
\* data: what fs::read returns; nat: what play_sid_native returns; iw: the
\* number of SID writes INIT captures.
HandlePlay(cmd, hw, data, nat, iw) ==
    LET ops0 == StopPlaybackOps(play_ctx, bridge)
        br   == EnsureHardware(bridge, engine_name, hw)
        ops1 == ops0 \o EnsureOps(bridge, hw)
        sf   == LoadSid(data)
    IN  IF br = NoDev
        THEN PlayDeviceError(ops1)
        ELSE IF ~data.readable
        THEN Outcome(state, NoCtx, br, "read", engine_name, ops1, "uncalled", "ok")
        ELSE IF ~sf.ok
        THEN Outcome(state, NoCtx, br, sf.err, engine_name, ops1, "uncalled", "ok")
        ELSE IF nat = "true"
        THEN Outcome("Playing", NativeContext(sf, cmd.path, cmd.song, 0), br,
                     NoErr, engine_name, ops1 \o <<"play_sid_native">>, nat, "ok")
        ELSE Outcome("Playing",
                     SetupPlayback(sf, cmd.path, cmd.song, cmd.sid4_addr,
                                   IsRsid(sf), 0),
                     br, NoErr, engine_name,
                     ops1 \o <<"play_sid_native">>
                          \o SetupOps(sf, cmd.sid4_addr, iw),
                     nat, "ok")

HandleStopClearsError ==
    Outcome("Stopped", NoCtx, bridge, NoErr, engine_name,
            StopPlaybackOps(play_ctx, bridge), "uncalled", "uncalled")

\* handle_cmd, PlayerCmd::Stop
HandleStop ==
    Outcome("Stopped", NoCtx, bridge, last_error, engine_name,
            StopPlaybackOps(play_ctx, bridge), "uncalled", "uncalled")

\* handle_cmd, PlayerCmd::TogglePause
HandleTogglePause ==
    Outcome(CASE state = "Playing" -> "Paused"
              [] state = "Paused" -> "Playing"
              [] OTHER -> state,
            play_ctx, bridge, last_error, engine_name, <<>>, "uncalled", "uncalled")

\* handle_cmd, PlayerCmd::SetSubtune
HandleSetSubtune(cmd, data, nat, iw) ==
    IF play_ctx = NoCtx
    THEN Outcome(state, NoCtx, bridge, NoErr, engine_name, <<>>, "uncalled", "uncalled")
    ELSE
    LET ops0 == StopPlaybackOps(play_ctx, bridge)
        sf   == LoadSid(data)
    IN  IF play_ctx.engine = "Native"
        THEN IF data.readable /\ bridge # NoDev
             THEN IF nat = "true" /\ sf.ok
                  THEN Outcome("Playing",
                               NativeContext(sf, play_ctx.path, cmd.song, 0),
                               bridge, NoErr, engine_name,
                               ops0 \o <<"play_sid_native">>, nat, "uncalled")
                  ELSE Outcome(state, NoCtx, bridge, NoErr, engine_name,
                               ops0 \o <<"play_sid_native">>, nat, "uncalled")
             ELSE Outcome(state, NoCtx, bridge, NoErr, engine_name, ops0, "uncalled", "uncalled")
        ELSE IF data.readable /\ sf.ok
             THEN Outcome("Playing",
                          SetupPlayback(sf, play_ctx.path, cmd.song, 0,
                                        play_ctx.engine = "Rsid", 0),
                          bridge, NoErr, engine_name,
                          ops0 \o (IF bridge # NoDev THEN SetupOps(sf, 0, iw)
                                  ELSE <<>>),
                          "uncalled", "uncalled")
             ELSE Outcome(state, NoCtx, bridge, NoErr, engine_name, ops0, "uncalled", "uncalled")

SetEngineKeepsSameName(cmd) ==
    IF bridge # NoDev /\ bridge.name = cmd.name
    THEN Outcome("Stopped", NoCtx, bridge, last_error, cmd.name,
                 StopPlaybackOps(play_ctx, bridge), "uncalled", "uncalled")
    ELSE Outcome("Stopped", NoCtx, NoDev, last_error, cmd.name,
                 StopPlaybackOps(play_ctx, bridge)
                 \o (IF bridge # NoDev THEN <<"mute", "close", "shutdown">> ELSE <<>>),
                 "uncalled", "uncalled")

\* handle_cmd, PlayerCmd::SetEngine
HandleSetEngine(cmd) ==
    Outcome("Stopped", NoCtx, NoDev, last_error, cmd.name,
            StopPlaybackOps(play_ctx, bridge)
            \o (IF bridge # NoDev THEN <<"mute", "close", "shutdown">> ELSE <<>>),
            "uncalled", "uncalled")

\* The state a handler's outcome leaves, its status published by send_status.
\* A context that is dropped or replaced takes its captures and its clock
\* origin with it.
Apply(cmd, out) ==
    /\ state' = out.state
    /\ play_ctx' = out.play_ctx
    /\ bridge' = out.bridge
    /\ last_error' = out.last_error
    /\ engine_name' = out.engine_name
    /\ dev_ops' = out.dev_ops
    /\ handled' = [cmd |-> cmd, native |-> out.native, hw |-> out.hw]
    /\ SendStatus(MkStatus(out.state, out.play_ctx, out.last_error))
    /\ IF cmd.type = "TogglePause" \/ (play_ctx = NoCtx /\ out.play_ctx = NoCtx)
       THEN UNCHANGED <<now, pace, sid_writes, batch>>
       ELSE /\ now' = 0
            /\ pace' = [base |-> 0, n |-> 0]
            /\ sid_writes' = <<>>
            /\ batch' = NoCall
    /\ UNCHANGED <<frame_cycle, cycles_done, steps, frame_ops, chipVars, partVars>>

\* handle_cmd
HandleCmd(cmd) ==
    CASE cmd.type = "Play" ->
            \E hw \in HwResults, data \in ReadResults(cmd.path),
               nat \in PlaySidNativeResults(
                          EnsureHardware(bridge, engine_name, "ok").name),
               iw \in InitWriteCounts :
                Apply(cmd, HandlePlay(cmd, hw, data, nat, iw))
      [] cmd.type = "Stop" -> Apply(cmd, HandleStop)
      [] cmd.type = "TogglePause" -> Apply(cmd, HandleTogglePause)
      [] cmd.type = "SetSubtune" ->
            \E data \in (IF play_ctx = NoCtx THEN {Unreadable}
                         ELSE ReadResults(play_ctx.path)),
               nat \in (IF bridge = NoDev THEN {"false"}
                        ELSE PlaySidNativeResults(bridge.name)),
               iw \in InitWriteCounts :
                Apply(cmd, HandleSetSubtune(cmd, data, nat, iw))
      [] cmd.type = "SetEngine" -> Apply(cmd, HandleSetEngine(cmd))

\* the positions of a thread that is inside handle_cmd
Handling == pc \in {"handle_idle", "handle_drain"}

\* what a step of the shell or of the clock leaves in handled
InHand == IF Handling THEN handled ELSE NoCmd

\* the loop has received cmd and calls handle_cmd.  The handler sleeps
\* (stop_playback, setup_playback) and blocks in fs::read while the shell
\* goes on sending, dropping its Sender and polling; what it does to the
\* thread's own variables and to the device, which no other thread touches,
\* is recorded when it returns.
EnterCmd(cmd, at) ==
    /\ pc' = at
    /\ handled' = [cmd |-> cmd, native |-> "pending", hw |-> "pending"]
    /\ dev_ops' = <<>>
    /\ NoStatusSent
    /\ UNCHANGED <<state, play_ctx, bridge, last_error, engine_name, now, pace>>
    /\ UNCHANGED <<frameVars, chipVars, partVars>>

\* handle_cmd returns to the loop that called it
HandleReturns ==
    /\ Handling
    /\ pc' = IF pc = "handle_idle" THEN "top" ELSE "drain"
    /\ HandleCmd(handled.cmd)
    /\ UNCHANGED <<cmd_q, cmd_open, frame_dur>>

\* cleanup, and the thread is gone
Exit(cmd) ==
    /\ pc' = "exit"
    /\ dev_ops' = CleanupOps(bridge)
    /\ bridge' = NoDev
    /\ handled' = [cmd |-> cmd, native |-> "uncalled", hw |-> "uncalled"]
    /\ NoStatusSent
    /\ frame_dur' = 0
    /\ UNCHANGED <<state, play_ctx, last_error, engine_name, now, pace>>
    /\ UNCHANGED <<frameVars, chipVars, partVars>>

Idle == pc = "top" /\ state \in {"Stopped", "Paused"}

DrainingMidFrame ==
    \/ pc \in {"drain", "frame"}
    \/ pc = "top" /\ state = "Playing" /\ play_ctx # NoCtx

\* the drain loop of the Playing arm, entered when a context exists
Draining ==
    \/ pc = "drain"
    \/ pc = "top" /\ state = "Playing" /\ play_ctx # NoCtx

\* let frame_dur = Duration::from_micros(ctx.frame_us), taken on entering the
\* Playing arm, before the drain loop
FrameDur == IF pc = "top" THEN play_ctx.frame_us ELSE frame_dur

\* the shell sends a command (the channel is bounded)
ShellSend(cmd) ==
    /\ cmd_open
    /\ pc # "exit"
    /\ Len(cmd_q) < MaxCmds
    /\ cmd_q' = Append(cmd_q, cmd)
    /\ dev_ops' = <<>>
    /\ handled' = InHand
    /\ NoStatusSent
    /\ UNCHANGED <<pc, state, play_ctx, bridge, last_error, engine_name,
                   cmd_open, now, pace, frame_dur>>
    /\ UNCHANGED <<frameVars, chipVars, partVars>>

\* the shell drops its Sender
ShellClose ==
    /\ cmd_open
    /\ pc # "exit"
    /\ cmd_open' = FALSE
    /\ dev_ops' = <<>>
    /\ handled' = InHand
    /\ NoStatusSent
    /\ UNCHANGED <<pc, state, play_ctx, bridge, last_error, engine_name,
                   cmd_q, now, pace, frame_dur>>
    /\ UNCHANGED <<frameVars, chipVars, partVars>>

\* Stopped | Paused: select! receives a command
IdleRecv ==
    /\ Idle
    /\ cmd_q # <<>>
    /\ cmd_q' = Tail(cmd_q)
    /\ UNCHANGED cmd_open
    /\ IF Head(cmd_q).type = "Quit"
       THEN Exit(Head(cmd_q))
       ELSE EnterCmd(Head(cmd_q), "handle_idle") /\ UNCHANGED frame_dur

\* Stopped | Paused: select! receives Err, the channel is disconnected
IdleDisconnected ==
    /\ Idle
    /\ cmd_q = <<>>
    /\ ~cmd_open
    /\ UNCHANGED <<cmd_q, cmd_open>>
    /\ Exit([type |-> "Disconnected"])

\* Stopped | Paused: the 100 ms idle tick publishes the status
IdleTick ==
    /\ Idle
    /\ SendStatus(MkStatus(state, play_ctx, last_error))
    /\ dev_ops' = <<>>
    /\ handled' = NoCmd
    /\ UNCHANGED <<pc, state, play_ctx, bridge, last_error, engine_name,
                   cmd_q, cmd_open, now, pace, frame_dur>>
    /\ UNCHANGED <<frameVars, chipVars, partVars>>

\* Playing without a context: state = Stopped
PlayingNoContext ==
    /\ pc = "top"
    /\ state = "Playing"
    /\ play_ctx = NoCtx
    /\ state' = "Stopped"
    /\ dev_ops' = <<>>
    /\ handled' = NoCmd
    /\ NoStatusSent
    /\ UNCHANGED <<pc, play_ctx, bridge, last_error, engine_name, cmd_q,
                   cmd_open, now, pace, frame_dur>>
    /\ UNCHANGED <<frameVars, chipVars, partVars>>

\* Playing: try_recv returns a command
DrainCmd ==
    /\ Draining
    /\ cmd_q # <<>>
    /\ cmd_q' = Tail(cmd_q)
    /\ UNCHANGED cmd_open
    /\ IF Head(cmd_q).type = "Quit"
       THEN Exit(Head(cmd_q))
       ELSE /\ frame_dur' = FrameDur
            /\ EnterCmd(Head(cmd_q), "handle_drain")

\* Playing: try_recv returns Disconnected
DrainDisconnected ==
    /\ Draining
    /\ cmd_q = <<>>
    /\ ~cmd_open
    /\ UNCHANGED <<cmd_q, cmd_open>>
    /\ Exit([type |-> "Disconnected"])

\* Playing: try_recv returns Empty; run the frame if still Playing
DrainEmpty ==
    /\ Draining
    /\ cmd_q = <<>>
    /\ cmd_open
    /\ pc' = IF state # "Playing" THEN "top" ELSE "frame"
    /\ frame_dur' = IF state # "Playing" THEN 0 ELSE FrameDur
    /\ dev_ops' = <<>>
    /\ handled' = NoCmd
    /\ NoStatusSent
    /\ UNCHANGED <<state, play_ctx, bridge, last_error, engine_name, cmd_q,
                   cmd_open, now, pace>>
    /\ UNCHANGED <<frameVars, chipVars, partVars>>

\* what a frame of the tune may capture (the runners above, in short)
FrameCaptures(ctx) ==
    IF ctx = NoCtx THEN {}
    ELSE IF ctx.engine = "Native" THEN {<<>>}
    ELSE {<<>>, << <<100, SID_VOL_REG, 15>> >>}

FrameDeviceCallsAlwaysFlush(ctx, br, captured) ==
    IF br # NoDev
    THEN (IF captured # <<>> THEN <<"ring_cycled">> ELSE <<>>) \o <<"flush">>
    ELSE <<>>

\* the device calls of one frame: send_sid_writes in the Rsid and Psid arms,
\* nothing in the Native arm, then flush if !ctx.is_native()
FrameDeviceCalls(ctx, br, captured) ==
    IF ctx.engine # "Native" /\ br # NoDev
    THEN (IF captured # <<>> THEN <<"ring_cycled">> ELSE <<>>) \o <<"flush">>
    ELSE <<>>

\* the engine arm of the frame, then flush unless the engine is Native
RunFrame(captured) ==
    /\ pc = "frame"
    /\ play_ctx # NoCtx
    /\ play_ctx.frame_count < MaxFrames
    /\ sid_writes' = captured
    /\ batch' = IF play_ctx.engine # "Native" /\ bridge # NoDev
                THEN SendSidWrites(captured, play_ctx.mirror_mono)
                ELSE NoCall
    /\ dev_ops' = FrameDeviceCalls(play_ctx, bridge, captured)
    /\ pc' = "pace"
    /\ handled' = NoCmd
    /\ NoStatusSent
    /\ UNCHANGED <<state, play_ctx, bridge, last_error, engine_name, cmd_q,
                   cmd_open, now, pace, frame_dur>>
    /\ UNCHANGED <<frame_cycle, cycles_done, steps, frame_ops, chipVars, partVars>>

\* Playing, yet the context is gone after the drain: only send_status runs
FrameSkipped ==
    /\ pc = "frame"
    /\ play_ctx = NoCtx
    /\ pc' = "top"
    /\ frame_dur' = 0
    /\ SendStatus(MkStatus(state, play_ctx, last_error))
    /\ dev_ops' = <<>>
    /\ handled' = NoCmd
    /\ UNCHANGED <<state, play_ctx, bridge, last_error, engine_name, cmd_q,
                   cmd_open, now, pace>>
    /\ UNCHANGED <<frameVars, chipVars, partVars>>


\* pacing: ctx.next_frame += frame_dur, snapped to the clock if it is past;
\* the thread then waits in wait_until
FramePace ==
    /\ pc = "pace"
    /\ AdvanceDeadline("wait")

\* wait_until has returned: the frame is counted and send_status publishes
FrameCounted ==
    /\ pc = "wait"
    /\ CountFrame("top", 0)

\* the clock moves on while the thread computes, sleeps or is descheduled
TimePasses(d) ==
    /\ pc # "exit"
    /\ play_ctx # NoCtx
    /\ now + d <= play_ctx.next_frame + MaxLag
    /\ now' = now + d
    /\ dev_ops' = <<>>
    /\ handled' = InHand
    /\ NoStatusSent
    /\ UNCHANGED <<pc, state, play_ctx, bridge, last_error, engine_name,
                   cmd_q, cmd_open, pace, frame_dur>>
    /\ UNCHANGED <<frameVars, chipVars, partVars>>

Init ==
    /\ pc = "top"
    /\ state = "Stopped"
    /\ play_ctx = NoCtx
    /\ bridge = NoDev
    /\ last_error = NoErr
    /\ engine_name \in EngineNames
    /\ cmd_q = <<>>
    /\ cmd_open = TRUE
    /\ published = NoStatus
    /\ dev_ops = <<>>
    /\ handled = NoCmd
    /\ now = 0
    /\ pace = [base |-> 0, n |-> 0]
    /\ frame_dur = 0
    /\ status_n = 0
    /\ polling = TRUE
    /\ sid_writes = <<>>
    /\ frame_cycle = 0
    /\ cycles_done = 0
    /\ steps = 0
    /\ batch = NoCall
    /\ frame_ops = 0
    /\ c64 = NoC64
    /\ cia = NoCia
    /\ chip_op = NoOp
    /\ PartsIdle

Next ==
    \/ \E cmd \in Commands : ShellSend(cmd)
    \/ ShellClose
    \/ IdleRecv
    \/ IdleDisconnected
    \/ IdleTick
    \/ PlayingNoContext
    \/ HandleReturns
    \/ DrainCmd
    \/ DrainDisconnected
    \/ DrainEmpty
    \/ \E captured \in FrameCaptures(play_ctx) : RunFrame(captured)
    \/ FrameSkipped
    \/ FramePace
    \/ FrameCounted
    \/ \E d \in Delays : TimePasses(d)

Spec == Init /\ [][Next]_vars

\* every step of the player thread itself
ThreadStep ==
    \/ PlayingNoContext
    \/ HandleReturns
    \/ DrainCmd
    \/ DrainDisconnected
    \/ DrainEmpty
    \/ \E captured \in FrameCaptures(play_ctx) : RunFrame(captured)
    \/ FrameSkipped
    \/ FramePace
    \/ FrameCounted

\* the commands the shell sends in the runs that must terminate
LiveCommands ==
    {c \in Commands : c.type = "Play" => c.path = "mono.sid"}

LiveNext ==
    \/ \E cmd \in LiveCommands : ShellSend(cmd)
    \/ ShellClose
    \/ IdleRecv
    \/ IdleDisconnected
    \/ IdleTick
    \/ ThreadStep
    \/ \E d \in Delays : TimePasses(d)

\* The thread is scheduled, and select! picks among its ready operations at
\* random, so a ready receive is not passed over for idle ticks forever.
LiveSpec ==
    /\ Init
    /\ [][LiveNext]_vars
    /\ WF_vars(ThreadStep)
    /\ WF_vars(IdleRecv)
    /\ WF_vars(IdleDisconnected)

\* the shell's tick stops running: nothing reads the status channel
ShellStalls ==
    /\ polling
    /\ pc # "exit"
    /\ polling' = FALSE
    /\ dev_ops' = <<>>
    /\ handled' = InHand
    /\ published' = NoStatus
    /\ UNCHANGED <<pc, state, play_ctx, bridge, last_error, engine_name,
                   cmd_q, cmd_open, now, pace, frame_dur, status_n>>
    /\ UNCHANGED <<frameVars, chipVars, partVars>>

\* poll_status, once, of a shell that does not tick regularly: drain all
PollStatus ==
    /\ ~polling
    /\ pc # "exit"
    /\ status_n > 0
    /\ status_n' = 0
    /\ dev_ops' = <<>>
    /\ handled' = InHand
    /\ published' = NoStatus
    /\ UNCHANGED <<pc, state, play_ctx, bridge, last_error, engine_name,
                   cmd_q, cmd_open, now, pace, frame_dur, polling>>
    /\ UNCHANGED <<frameVars, chipVars, partVars>>

StatusCommands ==
    {[type |-> "Play", path |-> "mono.sid", song |-> 1, sid4_addr |-> 0],
     [type |-> "TogglePause"], [type |-> "Quit"]}

StatusInit == Init /\ engine_name = "usb"

StatusNext ==
    \/ \E cmd \in StatusCommands : ShellSend(cmd)
    \/ ShellClose
    \/ ShellStalls
    \/ PollStatus
    \/ IdleRecv
    \/ IdleDisconnected
    \/ IdleTick
    \/ ThreadStep

\* The player thread with a shell that may stop reading status for good.
StatusSpec ==
    /\ StatusInit
    /\ [][StatusNext]_vars
    /\ WF_vars(ThreadStep)
    /\ WF_vars(IdleRecv)
    /\ WF_vars(IdleDisconnected)

---------------------------------------------------------------------------
(* Properties of the player thread *)

Has(ops, op) == \E i \in 1..Len(ops) : ops[i] = op

\* i < j < k < l with ops[i..l] the four calls in this order
InOrder(ops, a, b, c, d) ==
    \E i, j, k, l \in 1..Len(ops) :
        /\ i < j /\ j < k /\ k < l
        /\ ops[i] = a /\ ops[j] = b /\ ops[k] = c /\ ops[l] = d

\* the step is handle_cmd returning from a command of this type, or the loop
\* leaving on Quit or on a disconnect
Received(type) == handled'.cmd.type = type /\ handled'.hw # "pending"

\* a command has just been handled
Handled == handled # NoCmd /\ handled.hw # "pending"

PlaySucceeded == Received("Play") /\ state' = "Playing" /\ play_ctx' # NoCtx

\* the model explores MaxFrames frames of a context and no more
FrameBudgetSpent ==
    pc = "frame" /\ play_ctx # NoCtx /\ play_ctx.frame_count = MaxFrames

\* C4: in every state, a received Quit or an observed disconnect makes the
\* thread call flush, mute, reset, close on the open device, in this order,
\* drop it and terminate; and once the shell has dropped its Sender the
\* thread does terminate.
C4_ShutdownOnQuitOrDisconnect ==
    /\ [][ /\ (pc # "exit" /\ cmd_q # <<>> /\ cmd_q' = Tail(cmd_q)
               /\ Head(cmd_q).type = "Quit") => pc' = "exit"
           /\ (pc # "exit" /\ pc' = "exit") =>
                 /\ Received("Quit") \/ Received("Disconnected")
                 /\ Received("Disconnected") => (~cmd_open /\ cmd_q = <<>>)
                 /\ bridge' = NoDev
                 /\ bridge # NoDev =>
                       /\ InOrder(dev_ops', "flush", "mute", "reset", "close")
                       /\ dev_ops'[Len(dev_ops')] \in {"close", "shutdown"}
           /\ pc = "exit" => UNCHANGED vars
         ]_vars
    /\ (~cmd_open) ~> (pc = "exit" \/ FrameBudgetSpent)

C4_Witness ==
    /\ pc = "exit"
    /\ handled.cmd.type = "Disconnected"
    /\ state = "Paused"
    /\ dev_ops = <<"flush", "mute", "reset", "close", "shutdown">>

ParseErrors == {"short", "magic", "offset", "embedded"}

\* C5: a Play whose file cannot be read or parsed reports the error in the
\* status and leaves the player state and the playback context as they were.
C5_PlayFileErrorKeepsPlayback ==
    [][ (Received("Play") /\ last_error' \in ParseErrors \cup {"read"}) =>
            /\ published'.error = last_error'
            /\ state' = state
            /\ play_ctx' = play_ctx ]_vars

\* C6: a Play that cannot open or initialise the device reports the error
\* in the status, leaves no context and leaves the player Stopped.
C6_PlayDeviceError ==
    (handled.cmd.type = "Play" /\ handled.hw = "err") =>
        /\ published # NoStatus
        /\ published.error # NoErr
        /\ published.error = last_error
        /\ ~published.has_track
        /\ published.state = "Stopped"
        /\ play_ctx = NoCtx
        /\ state = "Stopped"
        /\ bridge = NoDev

C6_Witness ==
    /\ handled.cmd.type = "Play"
    /\ handled.hw = "err"
    /\ published.error = "open"

\* C7: whenever play_sid_native returned Err, for Play or for SetSubtune,
\* the song plays through CPU emulation: Playing with a non-native context.
C7_NativeFailureFallsBack ==
    handled.native = "err" =>
        /\ state = "Playing"
        /\ play_ctx # NoCtx
        /\ play_ctx.engine \in {"Psid", "Rsid"}

\* C8 as stated: an error stays until a Play succeeds; nothing else clears it.
C8_OnlyPlayClearsError ==
    [][ /\ (last_error # NoErr /\ last_error' = NoErr) => PlaySucceeded
        /\ PlaySucceeded => last_error' = NoErr
        /\ published' # NoStatus => published'.error = last_error' ]_vars

\* C8: every published status carries last_error; Stop, TogglePause and
\* SetEngine leave last_error as it is; SetSubtune always clears it; a Play
\* clears it when it succeeds and replaces it by its own error when it fails.
C8_ErrorLifetime ==
    [][ /\ published' # NoStatus => published'.error = last_error'
        /\ (~Received("Play") /\ ~Received("SetSubtune")) =>
                last_error' = last_error
        /\ Received("SetSubtune") => last_error' = NoErr
        /\ Received("Play") => (last_error' = NoErr <=> PlaySucceeded) ]_vars

C8_Witness ==
    /\ Handled
    /\ handled.cmd.type = "SetSubtune"
    /\ play_ctx = NoCtx
    /\ published.error = NoErr
    /\ state = "Playing"

DeviceKept == bridge # NoDev => (bridge' = bridge /\ ~Has(dev_ops', "close"))

\* C9 as stated: SetEngine closes the device only when the name differs.
C9_SetEngineComparesName ==
    [][ /\ (Received("Play") \/ Received("Stop") \/ Received("TogglePause")
            \/ Received("SetSubtune")) => DeviceKept
        /\ (Received("SetEngine") /\ bridge # NoDev) =>
              IF handled'.cmd.name = bridge.name
              THEN DeviceKept
              ELSE Has(dev_ops', "close") /\ bridge' # bridge ]_vars

\* C9: Play, Stop, TogglePause and SetSubtune keep the open device; SetEngine
\* closes and drops the open device whatever name it carries and opens none;
\* a device is opened only by Play, under the engine name then stored, and
\* is kept unless its init fails.
C9_DeviceLifetime ==
    [][ /\ (Received("Play") \/ Received("Stop") \/ Received("TogglePause")
            \/ Received("SetSubtune")) => DeviceKept
        /\ Received("SetEngine") =>
              /\ bridge' = NoDev
              /\ engine_name' = handled'.cmd.name
              /\ ~Has(dev_ops', "open")
              /\ bridge # NoDev => Has(dev_ops', "close")
        /\ Has(dev_ops', "open") =>
              /\ Received("Play")
              /\ bridge = NoDev
              /\ bridge' = IF handled'.hw = "err" THEN NoDev
                           ELSE [name |-> engine_name] ]_vars

C9_Witness ==
    /\ handled.cmd.type = "SetEngine"
    /\ handled.cmd.name = "usb"
    /\ engine_name = "usb"
    /\ Has(dev_ops, "reset")
    /\ Has(dev_ops, "close")
    /\ bridge = NoDev

\* C10: over the n frames of a context paced since its deadline was last set
\* from the clock, next_frame has advanced by exactly n times its frame_us.
C10_NoDrift ==
    play_ctx # NoCtx =>
        play_ctx.next_frame = pace.base + pace.n * play_ctx.frame_us

\* the thread moves on from the frame body or from the pacing of a frame
FrameStep == pc \in {"frame", "pace", "wait"} /\ pc' # pc /\ play_ctx # NoCtx

\* C11: while the engine is Native, the frame body and its pacing make no
\* device call at all (no ring_cycled, no write, no flush) and hand over no
\* batch; they change nothing but the deadline, the frame count and elapsed.
C11_NativeFrameSendsNothing ==
    [][ (FrameStep /\ play_ctx.engine = "Native") =>
            /\ dev_ops' = <<>>
            /\ batch' = NoCall
            /\ sid_writes' = <<>>
            /\ bridge' = bridge
            /\ state' = state
            /\ play_ctx' = [play_ctx EXCEPT
                              !.next_frame = play_ctx'.next_frame,
                              !.frame_count = play_ctx'.frame_count,
                              !.elapsed = play_ctx'.elapsed]
            /\ (pc = "pace" =>
                  /\ play_ctx'.frame_count = play_ctx.frame_count
                  /\ play_ctx'.elapsed = play_ctx.elapsed
                  /\ play_ctx'.next_frame >= play_ctx.next_frame + frame_dur)
            /\ (pc = "wait" =>
                  /\ play_ctx'.frame_count = play_ctx.frame_count + 1
                  /\ play_ctx'.elapsed = play_ctx.elapsed + frame_dur
                  /\ play_ctx'.next_frame = play_ctx.next_frame)
      ]_vars

C11_Witness ==
    /\ play_ctx # NoCtx
    /\ play_ctx.engine = "Native"
    /\ play_ctx.frame_count = 2
    /\ published # NoStatus
    /\ published.elapsed > 0
    /\ bridge = [name |-> "u64"]

ChannelFull == status_n = STATUS_CAP /\ ~polling

\* C12: the status channel never holds more than its 16 messages; a status
\* published while it is full is dropped and the publishing step completes
\* all the same; with the channel full and never read, a queued command is
\* still handled and a frame that has begun is still run and paced.
C12_StatusNeverBlocks ==
    /\ [][ /\ status_n' \in 0..STATUS_CAP
           /\ (published' # NoStatus /\ ChannelFull) =>
                 /\ ~published'.accepted
                 /\ status_n' = STATUS_CAP
           /\ (published' # NoStatus /\ ~polling /\ status_n < STATUS_CAP) =>
                 /\ published'.accepted
                 /\ status_n' = status_n + 1 ]_vars
    /\ (ChannelFull /\ cmd_q # <<>>)
          ~> (Handled \/ FrameBudgetSpent \/ polling)
    /\ (ChannelFull /\ pc = "frame" /\ ~FrameBudgetSpent)
          ~> (pc = "top" \/ polling)

C12_Witness ==
    /\ ChannelFull
    /\ published # NoStatus
    /\ ~published.accepted
    /\ handled.cmd.type = "Play"
    /\ state = "Playing"
    /\ play_ctx # NoCtx

\* C13: a command is handled only at the top of the loop or in the drain
\* loop, never once the frame has begun; a frame that has begun hands all its
\* captured writes to the device and flushes it, and is then paced, before
\* the thread receives anything, whatever waits in the command channel.
C13_NoMidFrameCommand ==
    [][ /\ (cmd_q # <<>> /\ cmd_q' = Tail(cmd_q)) => pc \in {"top", "drain"}
        /\ handled' # NoCmd =>
              pc \in {"top", "drain", "handle_idle", "handle_drain"}
        /\ (pc = "frame" /\ play_ctx # NoCtx /\ pc' # pc) =>
              /\ pc' = "pace"
              /\ handled' = NoCmd
              /\ cmd_q' = cmd_q
              /\ play_ctx' = play_ctx
              /\ (play_ctx.engine # "Native" /\ bridge # NoDev) =>
                    /\ dev_ops'[Len(dev_ops')] = "flush"
                    /\ batch' = SendSidWrites(sid_writes', play_ctx.mirror_mono)
                    /\ sid_writes' # <<>> => dev_ops' = <<"ring_cycled", "flush">>
        /\ (pc = "pace" /\ pc' # pc) =>
              /\ pc' = "wait"
              /\ handled' = NoCmd
              /\ cmd_q' = cmd_q
              /\ bridge' = bridge
              /\ state' = state
        /\ (pc = "wait" /\ pc' # pc) =>
              /\ pc' = "top"
              /\ handled' = NoCmd
              /\ cmd_q' = cmd_q
              /\ bridge' = bridge
              /\ state' = state ]_vars

C13_Witness ==
    /\ pc = "pace"
    /\ cmd_q # <<>>
    /\ Head(cmd_q).type = "Stop"
    /\ dev_ops = <<"ring_cycled", "flush">>
    /\ batch # NoCall
    /\ state = "Playing"

----------------------------------------------------------------------------
(* The CIA of the C64 core (c64_emu::cia).  A u8 or u32 of flags is the set *)
(* of the values of its set bits.  The port B timer output (pb_toggle,      *)
(* last_control, CIAT_OUT) and the TOD counters are left out: the TOD's     *)
(* alarm is an input of the tick.                                           *)

CIAT_CR_START   == 1
CIAT_STEP       == 4
CIAT_CR_ONESHOT == 8
CIAT_CR_FLOAD   == 16
CIAT_PHI2IN     == 32
CIAT_COUNT2     == 256
CIAT_COUNT3     == 512
CIAT_ONESHOT0   == 2048
CIAT_ONESHOT    == 524288
CIAT_LOAD1      == 4096
CIAT_LOAD       == 1048576
CIAT_CR_MASK    == {CIAT_CR_START, CIAT_CR_ONESHOT, CIAT_CR_FLOAD, CIAT_PHI2IN}

INT_UNDERFLOW_A == 1
INT_UNDERFLOW_B == 2
INT_ALARM       == 4
INT_SP          == 8
INT_FLAG        == 16
INT_REQUEST     == 128

TAL == 4
TAH == 5
TBL == 6
TBH == 7
ICR == 13
SDR == 12
CRA == 14
CRB == 15

\* the set bits of a byte, and the byte of a set of bits
Bits(n) == {b \in {1, 2, 4, 8, 16, 32, 64, 128} : (n \div b) % 2 = 1}
Byte(S) ==
    LET v(b) == IF b \in S THEN b ELSE 0
    IN  v(1) + v(2) + v(4) + v(8) + v(16) + v(32) + v(64) + v(128)

\* Timer::new, Timer::reset
TimerNew == [counter |-> 65535, latch |-> 65535, state |-> {}]

\* Timer::started
Started(t) == CIAT_CR_START \in t.state

\* Timer::set_control
SetControl(t, cr) ==
    LET crbits == Bits(cr) \cap CIAT_CR_MASK
        xored  == IF CIAT_PHI2IN \in crbits THEN crbits \ {CIAT_PHI2IN}
                  ELSE crbits \cup {CIAT_PHI2IN}
    IN  [t EXCEPT !.state = (@ \ CIAT_CR_MASK) \cup xored]

\* Timer::latch_lo
LatchLo(t, data) ==
    LET l == (t.latch \div 256) * 256 + data
    IN  [t EXCEPT !.latch = l,
                  !.counter = IF CIAT_LOAD \in t.state THEN l ELSE @]

\* Timer::latch_hi
LatchHi(t, data) ==
    LET l == (t.latch % 256) + data * 256
    IN  [t EXCEPT !.latch = l,
                  !.counter = IF CIAT_LOAD \in t.state THEN l ELSE @,
                  !.state = IF CIAT_LOAD \notin @ /\ CIAT_CR_START \notin @
                            THEN @ \cup {CIAT_LOAD1} ELSE @]

\* Timer::cascade_step
CascadeStep(t) == [t EXCEPT !.state = @ \cup {CIAT_STEP}]

\* Timer::tick_phi2: one PHI2 cycle; [t, underflow]
TickPhi2(t) ==
    LET s       == t.state
        counted == IF CIAT_COUNT3 \in s
                   THEN (t.counter + 65535) % 65536 ELSE t.counter
        adj     == (s \cap {CIAT_CR_START, CIAT_CR_ONESHOT, CIAT_PHI2IN})
                   \cup (IF {CIAT_CR_START, CIAT_PHI2IN} \subseteq s
                         THEN {CIAT_COUNT2} ELSE {})
                   \cup (IF CIAT_COUNT2 \in s
                            \/ {CIAT_STEP, CIAT_CR_START} \subseteq s
                         THEN {CIAT_COUNT3} ELSE {})
                   \cup {b * 256 : b \in s \cap {CIAT_CR_FLOAD, CIAT_CR_ONESHOT,
                                                 CIAT_LOAD1, CIAT_ONESHOT0}}
        under   == counted = 0 /\ CIAT_COUNT3 \in adj
        fired   == IF ~under THEN adj
                   ELSE IF (adj \cup {CIAT_LOAD})
                             \cap {CIAT_ONESHOT, CIAT_ONESHOT0} # {}
                   THEN (adj \cup {CIAT_LOAD}) \ {CIAT_CR_START, CIAT_COUNT2}
                   ELSE adj \cup {CIAT_LOAD}
    IN  [t |-> IF CIAT_LOAD \in fired
               THEN [t EXCEPT !.counter = t.latch,
                              !.state = fired \ {CIAT_COUNT3}]
               ELSE [t EXCEPT !.counter = counted, !.state = fired],
         underflow |-> under]

\* InterruptSource::new, InterruptSource::reset; model is a CiaModel,
\* pending_trigger 0 is None
InterruptNew(model) ==
    [model |-> model, icr |-> {}, idr |-> {}, asserted |-> FALSE,
     pending_trigger |-> 0]

\* InterruptSource::is_triggered
IsTriggered(src) == INT_REQUEST \in src.idr

\* the enabled pending flags: idr & icr & 0x1F
Enabled(src) == src.idr \cap src.icr \cap Bits(31)

\* idr |= INT_REQUEST; asserted = true
RaiseLine(src) ==
    [src EXCEPT !.idr = @ \cup {INT_REQUEST}, !.asserted = TRUE]

\* InterruptSource::set_mask: [src, delta]
SetMask(src, data) ==
    LET m == IF INT_REQUEST \in Bits(data)
             THEN [src EXCEPT !.icr = @ \cup (Bits(data) \ {INT_REQUEST})]
             ELSE [src EXCEPT !.icr = @ \ Bits(data)]
    IN  IF Enabled(m) # {} /\ ~IsTriggered(m)
        THEN [src |-> RaiseLine(m), delta |-> "assert"]
        ELSE [src |-> m, delta |-> "none"]

\* InterruptSource::trigger: [src, ret]
Trigger(src, flag) ==
    LET f == [src EXCEPT !.idr = @ \cup {flag}]
    IN  IF Enabled(f) = {} THEN [src |-> f, ret |-> FALSE]
        ELSE IF f.model = "Mos8521"
        THEN IF ~IsTriggered(f) THEN [src |-> RaiseLine(f), ret |-> TRUE]
             ELSE [src |-> f, ret |-> FALSE]
        ELSE LET p == [f EXCEPT !.pending_trigger = flag]
             IN  IF ~IsTriggered(p) THEN [src |-> RaiseLine(p), ret |-> TRUE]
                 ELSE [src |-> p, ret |-> FALSE]

\* InterruptSource::tick_delayed: [src, ret]
TickDelayed(src) ==
    LET t == [src EXCEPT !.pending_trigger = 0]
    IN  IF src.pending_trigger # 0 /\ Enabled(t) # {} /\ ~IsTriggered(t)
        THEN [src |-> RaiseLine(t), ret |-> TRUE]
        ELSE [src |-> t, ret |-> FALSE]

\* InterruptSource::clear keeping the line asserted: a plausible slip
ClearKeepsLine(src) == [src EXCEPT !.idr = {}]

\* InterruptSource::clear (the value returned is the old idr)
Clear(src) == [src EXCEPT !.idr = {}, !.asserted = FALSE]

\* Mos652x::new, Mos652x::reset: cra and crb are regs[CRA] and regs[CRB]
CiaChipNew(model) ==
    [cra |-> 0, crb |-> 0, timer_a |-> TimerNew, timer_b |-> TimerNew,
     interrupt |-> InterruptNew(model), sdr_shift_count |-> 0]

\* Mos652x::read of ICR: [chip, val, delta]
ReadIcr(chip) ==
    [chip  |-> [chip EXCEPT !.interrupt = Clear(@)],
     val   |-> Byte(chip.interrupt.idr),
     delta |-> IF INT_REQUEST \in chip.interrupt.idr THEN "deassert"
               ELSE "none"]

\* Mos652x::write to a timer, control or interrupt register: [chip, delta]
CiaWrite(chip, addr, data) ==
    IF addr = ICR
    THEN LET m == SetMask(chip.interrupt, data)
         IN  [chip |-> [chip EXCEPT !.interrupt = m.src], delta |-> m.delta]
    ELSE [chip |->
            CASE addr = TAL -> [chip EXCEPT !.timer_a = LatchLo(@, data)]
              [] addr = TAH -> [chip EXCEPT !.timer_a = LatchHi(@, data)]
              [] addr = TBL -> [chip EXCEPT !.timer_b = LatchLo(@, data)]
              [] addr = TBH -> [chip EXCEPT !.timer_b = LatchHi(@, data)]
              [] addr = CRA -> [chip EXCEPT !.cra = data,
                                            !.timer_a = SetControl(@, data)]
              [] addr = CRB ->
                   [chip EXCEPT !.crb = data,
                                !.timer_b = SetControl(@,
                                   Byte(Bits(data) \cup
                                        (IF 64 \in Bits(data) THEN {32}
                                         ELSE {})))]
              [] addr = SDR ->
                   [chip EXCEPT !.sdr_shift_count =
                                    IF 64 \in Bits(chip.cra) THEN 0 ELSE @]
              [] OTHER -> chip,
          delta |-> "none"]

\* trigger(flag) when cond holds, on the interrupt source carried in r
TriggerIf(r, cond, flag) ==
    IF ~cond THEN r
    ELSE LET t == Trigger(r.src, flag)
         IN  [src |-> t.src, ret |-> r.ret \/ t.ret]

\* Mos652x::tick: one PHI2 cycle; alarm is what tod.tick returns
CiaTick(chip, alarm) ==
    LET d    == TickDelayed(chip.interrupt)
        a    == TickPhi2(chip.timer_a)
        ua   == a.underflow
        r1   == TriggerIf(d, ua, INT_UNDERFLOW_A)
        tb   == IF ua /\ Bits(chip.crb) \cap Bits(97) = Bits(65)
                      /\ Started(chip.timer_b)
                THEN CascadeStep(chip.timer_b) ELSE chip.timer_b
        sdrn == IF ua /\ 64 \in Bits(chip.cra)
                THEN chip.sdr_shift_count + 1 ELSE chip.sdr_shift_count
        r2   == TriggerIf(r1, sdrn >= 8, INT_SP)
        b    == TickPhi2(tb)
        r3   == TriggerIf(r2, b.underflow, INT_UNDERFLOW_B)
        r4   == TriggerIf(r3, alarm, INT_ALARM)
    IN  [chip  |-> [chip EXCEPT !.timer_a = a.t, !.timer_b = b.t,
                                !.interrupt = r4.src,
                                !.sdr_shift_count =
                                    IF sdrn >= 8 THEN 0 ELSE sdrn],
         delta |-> IF r4.ret THEN "assert" ELSE "none",
         ua    |-> ua,
         ub    |-> b.underflow]

----------------------------------------------------------------------------
(* The VIC-II's interrupt logic (c64_emu::vic_ii) and the C64 core.         *)

IRQ_RASTER == 1

\* Mos656x::reset, as far as interrupts go
VicNew == [irq_flags |-> {}, irq_mask |-> {}, irq_state |-> FALSE]

\* Mos656x::handle_irq_state: [vic, delta]
HandleIrqState(vic) ==
    LET new_state == vic.irq_flags \cap vic.irq_mask \cap Bits(15) # {}
    IN  IF new_state /\ ~vic.irq_state
        THEN [vic |-> [vic EXCEPT !.irq_flags = @ \cup {128},
                                  !.irq_state = TRUE],
              delta |-> "assert"]
        ELSE IF ~new_state /\ vic.irq_state
        THEN [vic |-> [vic EXCEPT !.irq_flags = @ \ {128},
                                  !.irq_state = FALSE],
              delta |-> "deassert"]
        ELSE [vic |-> vic, delta |-> "none"]

\* Mos656x::write, as far as interrupts go: $D011 and $D012 run the edge
\* detector, $D019 acknowledges, $D01A sets the mask; edge: the raster
\* compare newly matches (raster_y_irq_edge_detect)
VicWrite(vic, addr, data, edge) ==
    CASE addr \in {17, 18} ->
           HandleIrqState([vic EXCEPT !.irq_flags =
                              IF edge THEN @ \cup {IRQ_RASTER} ELSE @])
      [] addr = 25 ->
           HandleIrqState([vic EXCEPT !.irq_flags =
                              @ \cap ((Bits(15) \ Bits(data)) \cup {128})])
      [] addr = 26 ->
           HandleIrqState([vic EXCEPT !.irq_mask = Bits(data) \cap Bits(15)])
      [] OTHER -> [vic |-> vic, delta |-> "none"]

\* Mos656x::tick: at the start of a line check_vblank steps the raster
\* line (line_edge: the compare newly matches) and handle_irq_state runs;
\* in the cycle after it, vblank may set the raster flag
VicTick(vic, ev) ==
    CASE ev = "line_start" -> HandleIrqState(vic)
      [] ev = "line_edge" ->
           HandleIrqState([vic EXCEPT !.irq_flags = @ \cup {IRQ_RASTER}])
      [] ev = "vblank_edge" ->
           [vic |-> [vic EXCEPT !.irq_flags = @ \cup {IRQ_RASTER}],
            delta |-> "none"]
      [] OTHER -> [vic |-> vic, delta |-> "none"]

\* irq_count after a chip reported delta
Count(n, delta) ==
    CASE delta = "assert" -> n + 1
      [] delta = "deassert" -> Max(n - 1, 0)
      [] OTHER -> n

\* RsidBus::new: C64::new, set_model, set_cia_model(Old), reset
RsidBusNew(is_pal) ==
    [model |-> IF is_pal THEN "PalB" ELSE "NtscM",
     irq_count |-> 0, cycle_count |-> 0, vic |-> VicNew,
     cia1 |-> CiaChipNew("Mos6526"), cia2 |-> CiaChipNew("Mos6526")]

\* the latch of the RSID default: 0x4025 on PAL, 0x4295 on NTSC
RsidLatch(is_pal) == IF is_pal THEN 16421 ELSE 17045

\* RsidBus::setup_rsid_cia_defaults: the core after it
SetupRsidCiaDefaults(core, is_pal) ==
    LET loaded  == [core.cia1 EXCEPT !.timer_a.latch = RsidLatch(is_pal),
                                     !.timer_a.counter = RsidLatch(is_pal)]
        started == [CiaWrite(loaded, CRA, 17).chip EXCEPT !.cra = 1]
    IN  [core EXCEPT !.cia1 = CiaWrite(started, ICR, 129).chip]

\* the bus accesses of the tune's code that reach the chips:
\* <<chip, register, value>>
BusWrites ==
    {<<"cia1", TBH, 0>>, <<"cia1", TBL, 0>>, <<"cia1", CRB, 25>>,
     <<"cia1", ICR, 130>>, <<"cia1", CRA, 0>>,
     <<"cia1", SDR, 85>>,
     <<"vic", 17, 27>>, <<"vic", 25, 1>>, <<"vic", 26, 1>>}
VicEvents == {"line_start", "line_edge", "vblank_edge", "other"}

\* the chip operation just taken: what it was and what it returned
Op(op, chip, reg, val, ua, ub) ==
    [op |-> op, chip |-> chip, reg |-> reg, val |-> val, ua |-> ua,
     ub |-> ub]

\* setup_rsid_engine up to the INIT trampoline: setup_rsid_cia_defaults
SetupRsidEngine ==
    /\ pc = "rsid_new"
    /\ pc' = "rsid_init"
    /\ c64' = SetupRsidCiaDefaults(c64, c64.model = "PalB")
    /\ chip_op' = Op("setup", "cia1", 0, 0, FALSE, FALSE)
    /\ UNCHANGED <<playerVars, frameVars, cia, partVars>>

\* C64::tick_peripherals
TickPeripherals(ev, alarm1, alarm2) ==
    /\ pc = "rsid_init"
    /\ c64.cycle_count < MaxCycles
    /\ LET v  == VicTick(c64.vic, ev)
           c1 == CiaTick(c64.cia1, alarm1)
           c2 == CiaTick(c64.cia2, alarm2)
       IN  /\ c64' = [c64 EXCEPT
                        !.cycle_count = @ + 1,
                        !.vic = v.vic,
                        !.cia1 = c1.chip,
                        !.cia2 = c2.chip,
                        !.irq_count = Count(Count(@, v.delta), c1.delta)]
           /\ chip_op' = Op("tick", "all", 0, 0,
                            <<c1.ua, c2.ua>>, <<c1.ub, c2.ub>>)
    /\ UNCHANGED <<pc, playerVars, frameVars, cia, partVars>>

\* C64::get_byte of a CIA's ICR
GetByte(chip) ==
    /\ pc = "rsid_init"
    /\ LET r == ReadIcr(c64[chip])
       IN  /\ c64' = [c64 EXCEPT
                        ![chip] = r.chip,
                        !.irq_count = IF chip = "cia1" THEN Count(@, r.delta)
                                      ELSE @]
           /\ chip_op' = Op("read", chip, ICR, r.val, FALSE, FALSE)
    /\ UNCHANGED <<pc, playerVars, frameVars, cia, partVars>>

\* C64::set_byte to a VIC or CIA register
SetByte(chip, reg, val, edge) ==
    /\ pc = "rsid_init"
    /\ IF chip = "vic"
       THEN LET w == VicWrite(c64.vic, reg, val, edge)
            IN  c64' = [c64 EXCEPT !.vic = w.vic,
                                   !.irq_count = Count(@, w.delta)]
       ELSE LET w == CiaWrite(c64[chip], reg, val)
            IN  c64' = [c64 EXCEPT
                          ![chip] = w.chip,
                          !.irq_count = IF chip = "cia1"
                                        THEN Count(@, w.delta) ELSE @]
    /\ chip_op' = Op("write", chip, 0, 0, FALSE, FALSE)
    /\ UNCHANGED <<pc, playerVars, frameVars, cia, partVars>>

\* RsidBus::clear_stale_ints, run by setup_rsid_engine when INIT returns
ClearStaleInts ==
    /\ pc = "rsid_init"
    /\ pc' = "rsid_ready"
    /\ c64' = [c64 EXCEPT
                 !.cia1.interrupt = IF ~Started(c64.cia1.timer_a)
                                    THEN Clear(@) ELSE @,
                 !.cia2.interrupt = IF ~Started(c64.cia2.timer_a)
                                    THEN Clear(@) ELSE @]
    /\ chip_op' = Op("clear_stale_ints", "all", 0, 0, FALSE, FALSE)
    /\ UNCHANGED <<playerVars, frameVars, cia, partVars>>

\* a tune's RsidBus right after RsidBus::new
CoreInit ==
    /\ pc = "rsid_new"
    /\ state = "Stopped"
    /\ play_ctx = NoCtx
    /\ bridge = NoDev
    /\ last_error = NoErr
    /\ engine_name = "usb"
    /\ cmd_q = <<>>
    /\ cmd_open = TRUE
    /\ published = NoStatus
    /\ dev_ops = <<>>
    /\ handled = NoCmd
    /\ now = 0
    /\ pace = [base |-> 0, n |-> 0]
    /\ frame_dur = 0
    /\ status_n = 0
    /\ polling = TRUE
    /\ sid_writes = <<>>
    /\ frame_cycle = 0
    /\ cycles_done = 0
    /\ steps = 0
    /\ batch = NoCall
    /\ frame_ops = 0
    /\ c64 \in {RsidBusNew(is_pal) : is_pal \in BOOLEAN}
    /\ cia = NoCia
    /\ chip_op = NoOp
    /\ PartsIdle

CoreNext ==
    \/ SetupRsidEngine
    \/ \E ev \in VicEvents : TickPeripherals(ev, FALSE, FALSE)
    \/ \E chip \in {"cia1", "cia2"} : GetByte(chip)
    \/ \E w \in BusWrites, edge \in BOOLEAN :
           SetByte(w[1], w[2], w[3], edge /\ w[1] = "vic" /\ w[2] \in {17, 18})
    \/ ClearStaleInts

CoreSpec == CoreInit /\ [][CoreNext]_vars

----------------------------------------------------------------------------
(* Properties of the C64 core and its CIAs *)

\* the IRQ sources of the core whose line is asserted
IrqSources(core) ==
    (IF core.cia1.interrupt.asserted THEN {"cia1"} ELSE {})
    \cup (IF core.vic.irq_state THEN {"vic"} ELSE {})

\* C14: in the C64 core irq_count is never negative, goes up by one exactly
\* when CIA1 or the VIC newly asserts its line, and down by one exactly when
\* an asserted source deasserts.
C14_IrqCountTracksSources ==
    [][/\ c64'.irq_count >= 0
       /\ c64'.irq_count = c64.irq_count
                           + Cardinality(IrqSources(c64') \ IrqSources(c64))
                           - Cardinality(IrqSources(c64) \ IrqSources(c64'))
      ]_vars

\* a stopped timer of the chip whose underflow flag is set in the IDR
StaleFlags(chip) ==
    (IF ~Started(chip.timer_a) THEN {INT_UNDERFLOW_A} ELSE {})
    \cup (IF ~Started(chip.timer_b) THEN {INT_UNDERFLOW_B} ELSE {})

\* C15: immediately after clear_stale_ints, on each CIA, no stopped timer
\* (A or B) still has its underflow flag set in the interrupt data register.
C15_NoStaleFlagAfterClear ==
    chip_op.op = "clear_stale_ints" =>
        /\ StaleFlags(c64.cia1) \cap c64.cia1.interrupt.idr = {}
        /\ StaleFlags(c64.cia2) \cap c64.cia2.interrupt.idr = {}

\* C16: for every RSID tune, when the first instruction of the INIT
\* trampoline is fetched, CIA1 Timer A's latch is the frame's cycle count
\* of the tune's video standard and CIA1's mask has the Timer A bit set.
C16_RsidDefaultsAtFrameRate ==
    chip_op.op = "setup" =>
        /\ c64.cia1.timer_a.latch = CyclesPerFrame(c64.model = "PalB")
        /\ INT_UNDERFLOW_A \in c64.cia1.interrupt.icr

----------------------------------------------------------------------------
(* The CIA of C64Memory (player::memory::Cia), ticked by whole runs of      *)
(* cycles.  Ports, the PB6/PB7 outputs and the TOD are left out.            *)

\* CiaTimer::new
CiaTimerNew ==
    [counter |-> 65535, latch |-> 65535, running |-> FALSE,
     oneshot |-> FALSE, underflow |-> FALSE]

\* CiaTimer::tick dropping the cycles left after an underflow: a plausible
\* slip
TimerTickOneUnderflow(t, remaining) ==
    IF ~t.running \/ remaining = 0 THEN [t |-> t, fires |-> 0]
    ELSE IF remaining > t.counter
    THEN [t |-> [t EXCEPT !.underflow = TRUE, !.running = ~t.oneshot,
                          !.counter = t.latch],
          fires |-> 1]
    ELSE [t |-> [t EXCEPT !.counter = @ - remaining], fires |-> 0]

\* CiaTimer::tick: [t, fires]
RECURSIVE TimerTick(_, _)
TimerTick(t, remaining) ==
    IF ~t.running \/ remaining = 0 THEN [t |-> t, fires |-> 0]
    ELSE IF remaining > t.counter
    THEN LET r == TimerTick(
                      [t EXCEPT !.underflow = TRUE, !.running = ~t.oneshot,
                                !.counter = t.latch],
                      remaining - (t.counter + 1))
         IN  [t |-> r.t, fires |-> r.fires + 1]
    ELSE [t |-> [t EXCEPT !.counter = @ - remaining], fires |-> 0]

\* CiaTimer::tick_once: [t, fires]
TickOnce(t) ==
    IF ~t.running THEN [t |-> t, fires |-> 0]
    ELSE IF t.counter = 0
    THEN [t |-> [t EXCEPT !.underflow = TRUE, !.running = ~t.oneshot,
                          !.counter = t.latch],
          fires |-> 1]
    ELSE [t |-> [t EXCEPT !.counter = @ - 1], fires |-> 0]

\* for _ in 0..a_fires { timer_b.tick_once() }: [t, fires]
RECURSIVE TickOnceTimes(_, _)
TickOnceTimes(t, k) ==
    IF k = 0 THEN [t |-> t, fires |-> 0]
    ELSE LET o == TickOnce(t)
             r == TickOnceTimes(o.t, k - 1)
         IN  [t |-> r.t, fires |-> o.fires + r.fires]

\* CiaTimer::write_control
WriteControl(t, value) ==
    LET run == 1 \in Bits(value)
    IN  [t EXCEPT !.running = run,
                  !.oneshot = 8 \in Bits(value),
                  !.counter = IF 16 \in Bits(value) \/ (~t.running /\ run)
                              THEN t.latch ELSE @]

\* Cia::new
CiaNew ==
    [timer_a |-> CiaTimerNew, timer_b |-> CiaTimerNew, int_mask |-> {},
     int_data |-> {}, int_line |-> FALSE, timer_b_counts_a |-> FALSE,
     cra |-> 0, crb |-> 0]

\* Cia::write to a timer, control or interrupt register
CiaRegWrite(c, offset, value) ==
    CASE offset = 4 ->
           [c EXCEPT !.timer_a.latch = (@ \div 256) * 256 + value]
      [] offset = 5 ->
           LET l == (c.timer_a.latch % 256) + value * 256
           IN  [c EXCEPT !.timer_a.latch = l,
                         !.timer_a.counter =
                             IF ~c.timer_a.running THEN l ELSE @]
      [] offset = 6 ->
           [c EXCEPT !.timer_b.latch = (@ \div 256) * 256 + value]
      [] offset = 7 ->
           LET l == (c.timer_b.latch % 256) + value * 256
           IN  [c EXCEPT !.timer_b.latch = l,
                         !.timer_b.counter =
                             IF ~c.timer_b.running THEN l ELSE @]
      [] offset = 13 ->
           LET m == IF 128 \in Bits(value)
                    THEN c.int_mask \cup (Bits(value) \cap Bits(31))
                    ELSE c.int_mask \ (Bits(value) \cap Bits(31))
           IN  [c EXCEPT !.int_mask = m,
                         !.int_line = @ \/ c.int_data \cap m # {}]
      [] offset = 14 ->
           [c EXCEPT !.cra = Byte(Bits(value) \ {16}),
                     !.timer_a = WriteControl(@, value)]
      [] offset = 15 ->
           [c EXCEPT !.crb = Byte(Bits(value) \ {16}),
                     !.timer_b_counts_a = 64 \in Bits(value),
                     !.timer_b = WriteControl(@, value)]
      [] OTHER -> c

\* Cia::tick with Timer B always counting cycles: a plausible slip
CiaTickCyclesOnly(c, cycles) ==
    LET a  == TimerTick(c.timer_a, cycles)
        b  == TimerTick(c.timer_b, cycles)
        id == c.int_data \cup (IF a.fires > 0 THEN {1} ELSE {})
                         \cup (IF b.fires > 0 THEN {2} ELSE {})
    IN  [c |-> [c EXCEPT !.timer_a = a.t, !.timer_b = b.t, !.int_data = id,
                         !.int_line = @ \/ id \cap c.int_mask # {}],
         a_fires |-> a.fires, b_fires |-> b.fires,
         ret |-> a.fires > 0 \/ b.fires > 0]

\* Cia::tick: [c, a_fires, b_fires, ret]
CiaTickCycles(c, cycles) ==
    LET a  == TimerTick(c.timer_a, cycles)
        b  == IF c.timer_b_counts_a THEN TickOnceTimes(c.timer_b, a.fires)
              ELSE TimerTick(c.timer_b, cycles)
        id == c.int_data \cup (IF a.fires > 0 THEN {1} ELSE {})
                         \cup (IF b.fires > 0 THEN {2} ELSE {})
    IN  [c |-> [c EXCEPT !.timer_a = a.t, !.timer_b = b.t, !.int_data = id,
                         !.int_line = @ \/ id \cap c.int_mask # {}],
         a_fires |-> a.fires, b_fires |-> b.fires,
         ret |-> a.fires > 0 \/ b.fires > 0]

\* a Cia::new() whose timers the tune loaded and started: latches la and
\* lb, Timer B started with crb, Timer A continuous, both masks enabled
RECURSIVE WriteAll(_, _)
WriteAll(c, ws) ==
    IF ws = <<>> THEN c
    ELSE WriteAll(CiaRegWrite(c, ws[1][1], ws[1][2]), Tail(ws))
Started2(la, lb, crb) ==
    WriteAll(CiaNew, <<<<4, la>>, <<5, 0>>, <<6, lb>>, <<7, 0>>,
                       <<13, 131>>, <<15, crb>>, <<14, 1>>>>)

\* what the tick just taken did, and the totals since the timers started
Ticked(n, r, prev) ==
    [op |-> "tick", n |-> n, a_fires |-> r.a_fires, b_fires |-> r.b_fires,
     cycles |-> prev.cycles + n, fa |-> prev.fa + r.a_fires,
     fb |-> prev.fb + r.b_fires, val |-> 0]

\* Cia::tick(cycles)
CiaTickStep(n) ==
    /\ pc = "cia"
    /\ chip_op.cycles + n <= MaxCounted
    /\ LET r == CiaTickCycles(cia, n)
       IN  /\ cia' = r.c
           /\ chip_op' = Ticked(n, r, chip_op)
    /\ UNCHANGED <<pc, playerVars, frameVars, c64, partVars>>

\* Cia::read of the ICR
CiaReadIcr ==
    /\ pc = "cia"
    /\ cia' = [cia EXCEPT !.int_data = {}, !.int_line = FALSE]
    /\ chip_op' = [chip_op EXCEPT
                     !.op = "read",
                     !.val = Byte((cia.int_data \cap Bits(31))
                                  \cup (IF cia.int_line THEN {128} ELSE {}))]
    /\ UNCHANGED <<pc, playerVars, frameVars, c64, partVars>>

\* a C64Memory's CIA with both timers just started
CiaInit ==
    /\ pc = "cia"
    /\ state = "Stopped"
    /\ play_ctx = NoCtx
    /\ bridge = NoDev
    /\ last_error = NoErr
    /\ engine_name = "usb"
    /\ cmd_q = <<>>
    /\ cmd_open = TRUE
    /\ published = NoStatus
    /\ dev_ops = <<>>
    /\ handled = NoCmd
    /\ now = 0
    /\ pace = [base |-> 0, n |-> 0]
    /\ frame_dur = 0
    /\ status_n = 0
    /\ polling = TRUE
    /\ sid_writes = <<>>
    /\ frame_cycle = 0
    /\ cycles_done = 0
    /\ steps = 0
    /\ batch = NoCall
    /\ frame_ops = 0
    /\ c64 = NoC64
    /\ PartsIdle
    /\ cia \in {Started2(la, lb, crb) :
                   la \in 0..MaxLatch, lb \in 0..MaxLatch, crb \in {1, 65}}
    /\ chip_op = [op |-> "start", n |-> 0, a_fires |-> 0, b_fires |-> 0,
                  cycles |-> 0, fa |-> 0, fb |-> 0, val |-> 0]

CiaNext ==
    \/ \E n \in 1..MaxTick : CiaTickStep(n)
    \/ CiaReadIcr

CiaSpec == CiaInit /\ [][CiaNext]_vars

\* C17: a running continuous Timer A with latch L underflows exactly at
\* each counted cycle that is a multiple of L + 1, however the cycles are
\* split into tick calls.
C17_UnderflowEveryLatchPlusOne ==
    LET L == cia.timer_a.latch
    IN  /\ chip_op.fa = chip_op.cycles \div (L + 1)
        /\ chip_op.op = "tick" =>
             chip_op.a_fires = (chip_op.cycles \div (L + 1))
                               - ((chip_op.cycles - chip_op.n) \div (L + 1))
        /\ cia.timer_a.counter = L - (chip_op.cycles % (L + 1))

\* the same cycle count reached by one tick call, later by several
C17_Witness ==
    /\ chip_op.op = "tick"
    /\ chip_op.n < chip_op.cycles
    /\ chip_op.n > cia.timer_a.latch + 1
    /\ chip_op.a_fires >= 2
    /\ chip_op.fa > chip_op.a_fires

\* C18: Timer B counting Timer A underflows advances by exactly one per
\* Timer A underflow, never by the cycles passed to tick, and underflows at
\* every (latch_b + 1)-th Timer A underflow.
C18_CascadeCountsUnderflows ==
    cia.timer_b_counts_a =>
        LET LB == cia.timer_b.latch
        IN  /\ chip_op.fb = chip_op.fa \div (LB + 1)
            /\ cia.timer_b.counter = LB - (chip_op.fa % (LB + 1))
            /\ chip_op.op = "tick" =>
                 chip_op.b_fires =
                     (chip_op.fa \div (LB + 1))
                     - ((chip_op.fa - chip_op.a_fires) \div (LB + 1))

\* a tick of several cycles in which Timer B, counting Timer A, underflowed
C18_Witness ==
    /\ cia.timer_b_counts_a
    /\ chip_op.op = "tick"
    /\ chip_op.n > chip_op.a_fires
    /\ chip_op.a_fires >= 2
    /\ chip_op.b_fires >= 1
    /\ chip_op.fb >= 2

\* the tick just taken triggered a flag of CIA1 that its mask enables
TriggeredEnabled ==
    /\ chip_op'.op = "tick"
    /\ \/ chip_op'.ua[1] /\ INT_UNDERFLOW_A \in c64.cia1.interrupt.icr
       \/ chip_op'.ub[1] /\ INT_UNDERFLOW_B \in c64.cia1.interrupt.icr

\* C19: when a flag enabled in the mask is triggered, a new-model CIA (8521)
\* asserts its line in the same cycle and an old-model CIA (6526) exactly
\* one cycle later.
C19_OldModelDelaysOneCycle ==
    [][/\ (TriggeredEnabled /\ ~c64.cia1.interrupt.asserted) =>
            IF c64.cia1.interrupt.model = "Mos8521"
            THEN c64'.cia1.interrupt.asserted
            ELSE /\ ~c64'.cia1.interrupt.asserted
                 /\ c64'.cia1.interrupt.pending_trigger # 0
       /\ (/\ chip_op'.op = "tick"
           /\ c64.cia1.interrupt.pending_trigger # 0
           /\ Enabled(c64.cia1.interrupt) # {}) =>
            c64'.cia1.interrupt.asserted
      ]_vars

\* either CIA: the C64 core's under setup_rsid_engine, or C64Memory's
ChipSpec == (CoreInit \/ CiaInit) /\ [][CoreNext \/ CiaNext]_vars

\* C20: reading a CIA's ICR returns the interrupt data as it was before the
\* read, bit 7 set if the line was asserted; after the read all pending
\* flags are clear and that CIA's line is deasserted.
C20_IcrReadReturnsAndClears ==
    [][/\ \A chip \in {"cia1", "cia2"} :
            (pc # "cia" /\ chip_op'.op = "read" /\ chip_op'.chip = chip) =>
                /\ chip_op'.val = Byte(c64[chip].interrupt.idr)
                /\ 128 \in Bits(chip_op'.val) <=> c64[chip].interrupt.asserted
                /\ c64'[chip].interrupt.idr = {}
                /\ ~c64'[chip].interrupt.asserted
       /\ (pc = "cia" /\ chip_op'.op = "read") =>
            /\ Bits(chip_op'.val) \cap Bits(31) = cia.int_data
            /\ 128 \in Bits(chip_op'.val) <=> cia.int_line
            /\ cia'.int_data = {}
            /\ ~cia'.int_line
      ]_vars

\* an ICR read that found CIA1's line asserted and left it deasserted
C20_Witness ==
    /\ pc = "rsid_init"
    /\ chip_op.op = "read"
    /\ chip_op.chip = "cia1"
    /\ chip_op.val = INT_REQUEST + INT_UNDERFLOW_B
    /\ c64.cia1.interrupt.idr = {}
    /\ ~c64.cia1.interrupt.asserted
    /\ c64.irq_count = 0

---------------------------------------------------------------------------
(***************************************************************************)
(* The raster counters: Mos656x of the C64 core (c64_emu/vic_ii/mod.rs)    *)
(* and Vic of C64Memory (player/memory.rs).  Only the fields the line      *)
(* counting reads are kept; seen, whole, twice and missed are history.     *)
(***************************************************************************)

\* MODEL_DATA: [raster_lines, cycles_per_line] of the VIC of a C64 model
ModelData(model) ==
    IF model = "PalB" THEN [raster_lines |-> 312, cycles_per_line |-> 63]
    ELSE [raster_lines |-> 263, cycles_per_line |-> 65]

AllLines(v) == 0..(v.lines - 1)

\* history of a raster counter at a new-frame event: the frame that ends
\* is a whole one only if an event began it
NewFrameEvent(v) ==
    [v EXCEPT !.new_frame = TRUE, !.event = TRUE, !.whole = TRUE,
              !.seen = {0},
              !.missed = @ \/ (v.whole /\ v.seen # AllLines(v))]

\* history of a raster counter that moved to line y within a frame
LineTaken(v, y) ==
    [v EXCEPT !.seen = @ \cup {y}, !.twice = @ \/ y \in v.seen]

\* Mos656x::chip then reset: the counter starts on the last line
Mos656xNew(model) ==
    [kind |-> "Mos656x", lines |-> ModelData(model).raster_lines,
     cpl |-> ModelData(model).cycles_per_line, accum |-> 0,
     y |-> ModelData(model).raster_lines - 1, vblanking |-> FALSE,
     new_frame |-> FALSE, event |-> FALSE, whole |-> FALSE,
     seen |-> {ModelData(model).raster_lines - 1}, twice |-> FALSE,
     missed |-> FALSE]

\* Mos656x::check_vblank that steps on the last line too
CheckVblankNoHold(v) == LineTaken([v EXCEPT !.y = v.y + 1], v.y + 1)

\* Mos656x::check_vblank (start of a line): the last line holds, any other
\* line steps
CheckVblank(v) ==
    LET vb == v.vblanking \/ v.y = v.lines - 1
    IN  IF vb THEN [v EXCEPT !.vblanking = TRUE]
        ELSE LineTaken([v EXCEPT !.y = v.y + 1], v.y + 1)

\* Mos656x::vblank (cycle 1 of a line)
Vblank(v) ==
    IF v.vblanking
    THEN NewFrameEvent([v EXCEPT !.vblanking = FALSE, !.y = 0])
    ELSE v

\* Mos656x::tick
Mos656xTick(v) ==
    LET lc == IF v.accum + 1 >= v.cpl THEN 0 ELSE v.accum + 1
        v1 == [v EXCEPT !.accum = lc, !.event = FALSE]
        v2 == IF lc = 0 THEN CheckVblank(v1) ELSE v1
    IN  IF lc = 1 THEN Vblank(v2) ELSE v2

\* Vic::new
VicRasterNew(is_pal) ==
    [kind |-> "Vic", lines |-> IF is_pal THEN 312 ELSE 263,
     cpl |-> IF is_pal THEN 63 ELSE 65, accum |-> 0, y |-> 0,
     vblanking |-> FALSE, new_frame |-> FALSE, event |-> FALSE,
     whole |-> FALSE, seen |-> {0}, twice |-> FALSE, missed |-> FALSE]

\* one pass of the while loop of Vic::tick
VicLine(v) ==
    LET v1 == [v EXCEPT !.accum = @ - v.cpl]
    IN  IF v.y + 1 >= v.lines
        THEN NewFrameEvent([v1 EXCEPT !.y = 0])
        ELSE LineTaken([v1 EXCEPT !.y = v.y + 1], v.y + 1)

RECURSIVE VicLines(_)
VicLines(v) == IF v.accum >= v.cpl THEN VicLines(VicLine(v)) ELSE v

\* Vic::tick(cycles)
VicRasterTick(v, cycles) ==
    VicLines([v EXCEPT !.accum = @ + cycles, !.event = FALSE])

\* the cycles handed to Vic::tick: instruction lengths, a stolen bad line,
\* and more than two lines at once
TickCycles == {2, 7, 47, 150}

RasterTick ==
    /\ pc = "raster"
    /\ raster.kind = "Mos656x"
    /\ raster' = Mos656xTick(raster)
    /\ UNCHANGED <<pc, playerVars, frameVars, chipVars, port, rsid, wire, emu,
                 eval, tod, vicirq>>

\* the runners take the event: if vic.new_frame { vic.new_frame = false }
TakeNewFrame ==
    /\ pc = "raster"
    /\ raster.kind = "Mos656x"
    /\ raster.new_frame
    /\ raster' = [raster EXCEPT !.new_frame = FALSE]
    /\ UNCHANGED <<pc, playerVars, frameVars, chipVars, port, rsid, wire, emu,
                 eval, tod, vicirq>>

MemoryVicTick(cycles) ==
    /\ pc = "raster"
    /\ raster.kind = "Vic"
    /\ raster' = VicRasterTick(raster, cycles)
    /\ UNCHANGED <<pc, playerVars, frameVars, chipVars, port, rsid, wire, emu,
                 eval, tod, vicirq>>

\* the player thread as constructed and no chip built: the state of the
\* variables a part of the program does not touch
ThreadIdle ==
    /\ state = "Stopped"
    /\ play_ctx = NoCtx
    /\ bridge = NoDev
    /\ last_error = NoErr
    /\ engine_name = "usb"
    /\ cmd_q = <<>>
    /\ cmd_open = TRUE
    /\ published = NoStatus
    /\ dev_ops = <<>>
    /\ handled = NoCmd
    /\ now = 0
    /\ pace = [base |-> 0, n |-> 0]
    /\ frame_dur = 0
    /\ status_n = 0
    /\ polling = TRUE
    /\ sid_writes = <<>>
    /\ frame_cycle = 0
    /\ cycles_done = 0
    /\ steps = 0
    /\ batch = NoCall
    /\ frame_ops = 0
    /\ c64 = NoC64
    /\ cia = NoCia
    /\ chip_op = NoOp

RasterInit ==
    /\ pc = "raster"
    /\ ThreadIdle
    /\ eval = NoEval
    /\ tod = NoTod
    /\ vicirq = NoVicIrq
    /\ raster \in {Mos656xNew("PalB"), Mos656xNew("NtscM"),
                   VicRasterNew(TRUE), VicRasterNew(FALSE)}
    /\ port = NoPort
    /\ rsid = NoRsid
    /\ wire = NoWire
    /\ emu = NoEmu

RasterNext ==
    \/ RasterTick
    \/ TakeNewFrame
    \/ \E cycles \in TickCycles : MemoryVicTick(cycles)

RasterSpec == RasterInit /\ [][RasterNext]_vars

\* C21: between two consecutive new-frame events the raster counter takes
\* every line index of 0..lines_per_frame-1 exactly once (no line is taken
\* twice, none is missed) and never a value outside that range
C21_RasterTakesEachLineOnce ==
    raster.kind # "None" =>
        /\ raster.y \in AllLines(raster)
        /\ ~raster.twice
        /\ ~raster.missed

\* a whole frame has ended at a new-frame event
C21_Witness ==
    /\ raster.kind # "None"
    /\ raster.whole
    /\ raster.event
    /\ raster.new_frame

---------------------------------------------------------------------------
(***************************************************************************)
(* The 6510 port and the banking of the two buses: C64Memory               *)
(* (player/memory.rs, PSID) and RsidBus over the C64 core (rsid_bus.rs,    *)
(* c64.rs, mmu.rs, banks/zero_ram.rs).  port.last is the bank the last     *)
(* access was served from.                                                 *)
(***************************************************************************)

BitAnd(a, b) == Byte(Bits(a) \cap Bits(b))
BitOr(a, b)  == Byte(Bits(a) \cup Bits(b))
BitNot(a)    == 255 - a

\* ZeroRamBank::update_cpu_port (no callback is ever installed)
UpdateCpuPort(z) ==
    LET pins == BitOr(BitAnd(z.pins, BitNot(z.dir)), BitAnd(z.data, z.dir))
        dr   == BitAnd(BitOr(z.data, BitNot(z.dir)), BitOr(pins, 23))
    IN  [z EXCEPT !.pins = pins,
                  !.data_read = IF BitAnd(z.dir, 32) = 0
                                THEN BitAnd(dr, BitNot(32)) ELSE dr]

\* ZeroRamBank::reset
ZeroRamNew ==
    UpdateCpuPort([dir |-> 0, data |-> 63, data_read |-> 63, pins |-> 63])

\* ZeroRamBank::poke (the fall-off clocks of bits 6 and 7 are left out)
ZeroPoke(z, addr, value) ==
    IF addr = 0
    THEN IF z.dir # value THEN UpdateCpuPort([z EXCEPT !.dir = value]) ELSE z
    ELSE IF z.data # value THEN UpdateCpuPort([z EXCEPT !.data = value])
         ELSE z

\* ZeroRamBank::peek_mut: bits 6 and 7 of $01 read as data_read has them
\* (their fall-off is left out; the caller masks with 0x07)
ZeroPeek(z, addr) == IF addr = 0 THEN z.dir ELSE z.data_read

\* Mmu::set_cpu_port and update_mapping (EXROM and GAME stay high): the
\* read map of pages $A, $D, $E and the write map of page $D
SetCpuPort(st) ==
    LET loram == 1 \in Bits(st)
        hiram == 2 \in Bits(st)
        charen == 4 \in Bits(st)
    IN  [read_e |-> IF hiram THEN "KernalRom" ELSE "Ram",
         read_a |-> IF loram /\ hiram THEN "BasicRom" ELSE "Ram",
         read_d |-> IF charen /\ (loram \/ hiram) THEN "Io"
                    ELSE IF ~charen /\ (loram \/ hiram) THEN "CharacterRom"
                    ELSE "Ram",
         write_d |-> IF charen /\ (loram \/ hiram) THEN "Io" ELSE "Ram"]

\* C64::set_byte for $0000 and $0001
C64SetPort(p, addr, val) ==
    LET z     == ZeroPoke(p.zero_ram, addr, val)
        dir   == ZeroPeek(z, 0)
        data  == ZeroPeek(z, 1)
        st    == BitAnd(BitOr(data, BitNot(dir)), 7)
    IN  [p EXCEPT !.zero_ram = z, !.mmu = SetCpuPort(st),
                  !.ram = [@ EXCEPT ![addr] = val]]

\* ram[$0000] and ram[$0001]
PortRam(d, v) == [a \in {0, 1} |-> IF a = 0 THEN d ELSE v]

\* RsidBus::new then setup_machine_state: C64::reset (Mmu::reset maps RAM),
\* the RAM bytes, then the port written through the bus
RsidPortNew ==
    C64SetPort(
        C64SetPort([bus |-> "RsidBus", zero_ram |-> ZeroRamNew,
                    mmu |-> SetCpuPort(0), ram |-> PortRam(47, 55),
                    last |-> [op |-> "None"]], 0, 47),
        1, 55)

\* C64Memory::new
MemPortNew ==
    [bus |-> "C64Memory", ram |-> PortRam(47, 55), last |-> [op |-> "None"]]

\* io_visible
IoVisible(prt) ==
    (1 \in Bits(prt) \/ 2 \in Bits(prt)) /\ 4 \in Bits(prt)

\* kernal_visible
KernalVisible(prt) == 2 \in Bits(prt)

\* C64Memory: the bank an access is served from.  get_byte (BASIC and
\* character ROM are not carried: RAM is returned for them), set_byte to
\* $D000-$DFFF, and opcode_cycles_banked (the byte it looks up)
MemBank(p, op, region) ==
    LET prt == p.ram[1]
    IN  CASE op = "write" -> IF IoVisible(prt) THEN "Io" ELSE "Ram"
          [] op = "opcode" ->
               IF region = "kernal" /\ KernalVisible(prt) THEN "KernalRom"
               ELSE "Ram"
          [] region = "basic" -> "Ram"
          [] region = "io" ->
               IF 1 \notin Bits(prt) /\ 2 \notin Bits(prt) THEN "Ram"
               ELSE IF 4 \notin Bits(prt) THEN "Ram"
               ELSE "Io"
          [] region = "kernal" ->
               IF KernalVisible(prt) THEN "KernalRom" ELSE "Ram"

\* RsidBus: the bank an access is served from.  C64::get_byte by read_map,
\* C64::set_byte by write_map, RsidBus::opcode_cycles by ram[$0001]
RsidBank(p, op, region) ==
    CASE op = "write" -> p.mmu.write_d
      [] op = "opcode" ->
           IF region = "kernal" /\ 2 \in Bits(p.ram[1]) THEN "KernalRom"
           ELSE "Ram"
      [] region = "basic" -> p.mmu.read_a
      [] region = "io" -> p.mmu.read_d
      [] region = "kernal" -> p.mmu.read_e

\* the accesses that take a banking decision: <<op, region>>
Accesses ==
    {<<"read", "basic">>, <<"read", "io">>, <<"read", "kernal">>,
     <<"write", "io">>, <<"opcode", "kernal">>, <<"opcode", "io">>,
     <<"opcode", "basic">>}

\* the bytes written to the port: every LORAM/HIRAM/CHAREN pattern, with
\* the upper bits of the defaults ($2F, $37) or none
PortValues == {low + high : low \in 0..7, high \in {0, 40, 48}}

\* C64Memory::set_byte of $0000 or $0001
MemSetPort(addr, val) ==
    /\ pc = "port"
    /\ port.bus = "C64Memory"
    /\ port' = [port EXCEPT !.ram = [@ EXCEPT ![addr] = val],
                            !.last = [op |-> "port"]]
    /\ UNCHANGED <<pc, playerVars, frameVars, chipVars, raster, rsid, wire, emu,
                 eval, tod, vicirq>>

\* an access of C64Memory outside the port
MemAccess(op, region) ==
    /\ pc = "port"
    /\ port.bus = "C64Memory"
    /\ port' = [port EXCEPT !.last = [op |-> op, region |-> region,
                                      bank |-> MemBank(port, op, region)]]
    /\ UNCHANGED <<pc, playerVars, frameVars, chipVars, raster, rsid, wire, emu,
                 eval, tod, vicirq>>

\* RsidBus::set_byte of $0000 or $0001
RsidSetPort(addr, val) ==
    /\ pc = "port"
    /\ port.bus = "RsidBus"
    /\ port' = [C64SetPort(port, addr, val) EXCEPT !.last = [op |-> "port"]]
    /\ UNCHANGED <<pc, playerVars, frameVars, chipVars, raster, rsid, wire, emu,
                 eval, tod, vicirq>>

\* an access of RsidBus outside the port
RsidAccess(op, region) ==
    /\ pc = "port"
    /\ port.bus = "RsidBus"
    /\ port' = [port EXCEPT !.last = [op |-> op, region |-> region,
                                      bank |-> RsidBank(port, op, region)]]
    /\ UNCHANGED <<pc, playerVars, frameVars, chipVars, raster, rsid, wire, emu,
                 eval, tod, vicirq>>

PortInit ==
    /\ pc = "port"
    /\ ThreadIdle
    /\ eval = NoEval
    /\ tod = NoTod
    /\ vicirq = NoVicIrq
    /\ raster = NoRaster
    /\ port \in {MemPortNew, RsidPortNew}
    /\ rsid = NoRsid
    /\ wire = NoWire
    /\ emu = NoEmu

PortNext ==
    \/ \E addr \in {0, 1}, val \in PortValues : MemSetPort(addr, val)
    \/ \E a \in Accesses : MemAccess(a[1], a[2])
    \/ \E addr \in {0, 1}, val \in PortValues : RsidSetPort(addr, val)
    \/ \E a \in Accesses : RsidAccess(a[1], a[2])

PortSpec == PortInit /\ [][PortNext]_vars

\* the direction and data last written to $0000 and $0001
PortDir  == port.ram[0]
PortData == port.ram[1]

\* the bank the PLA selects in state st; a bus that carries no BASIC or
\* character ROM serves RAM in their place
PlaBank(bus, op, region, st) ==
    LET m == SetCpuPort(st)
        b == CASE region = "basic" -> m.read_a
               [] region = "kernal" -> m.read_e
               [] region = "io" -> IF op = "write" THEN m.write_d ELSE m.read_d
    IN  IF bus = "C64Memory" /\ b \in {"BasicRom", "CharacterRom"}
        THEN "Ram" ELSE b

\* C22: on both buses every banking decision (KERNAL at $E000-$FFFF, I/O or
\* character ROM at $D000-$DFFF, BASIC at $A000-$BFFF) follows the effective
\* state (data | !dir) & 0x07 of the port as last written, an input bit
\* counting as 1
C22_BankingByEffectiveState ==
    (port.bus # "None" /\ port.last.op \in {"read", "write", "opcode"}) =>
        port.last.bank =
            PlaBank(port.bus, port.last.op, port.last.region,
                    BitAnd(BitOr(PortData, BitNot(PortDir)), 7))

\* what does hold: the reads and writes the core's MMU maps follow the
\* effective state
MmuFollowsEffectiveState ==
    (port.bus = "RsidBus" /\ port.last.op \in {"read", "write"}) =>
        port.last.bank =
            PlaBank(port.bus, port.last.op, port.last.region,
                    BitAnd(BitOr(PortData, BitNot(PortDir)), 7))

---------------------------------------------------------------------------
(***************************************************************************)
(* The RSID runners (player/mod.rs): run_rsid_init_emu, the tail of        *)
(* setup_rsid_engine and run_rsid_sub_emu, with deliver_irq_emu and        *)
(* deliver_nmi_emu.  The tune's code and the chips are inputs: what an     *)
(* instruction leaves in the interrupt-disable flag, and the IRQ and NMI   *)
(* lines after the peripherals were ticked.  While an interrupt sequence   *)
(* is ticked no instruction runs, so a line can rise but not fall.         *)
(* rsid.took, rsid.nmis and rsid.ret are history.                          *)
(***************************************************************************)

\* deliver_irq_emu: [r, cycles]; no delivery while the flag is set
DeliverIrqEmu(r) ==
    IF r.i_flag THEN [r |-> r, cycles |-> 0]
    ELSE [r |-> [r EXCEPT !.i_flag = TRUE], cycles |-> INT_CYCLES]

\* deliver_irq_emu without the test of the flag
DeliverIrqEmuUngated(r) ==
    [r |-> [r EXCEPT !.i_flag = TRUE], cycles |-> INT_CYCLES]

\* deliver_nmi_emu: [r, cycles]
DeliverNmiEmu(r) ==
    [r |-> [r EXCEPT !.i_flag = TRUE], cycles |-> INT_CYCLES]

\* the cycles of the instruction a pass of a runner steps: the values of the
\* opcode table
RunCycles == 2..8

\* what one pass of a runner's loop reads from the tune and the chips:
\* c the instruction's cycles, i the flag it leaves, irq and nmi the
\* lines after its ticks, rise_a and rise_b the lines that rise while the
\* IRQ and the NMI sequence are ticked
StepInput(c, i, irq, nmi, rise_a, rise_b) ==
    [c |-> c, i |-> i, irq |-> irq, nmi |-> nmi, rise_a |-> rise_a,
     rise_b |-> rise_b]

\* the lines that may rise while the IRQ sequence is ticked: none when the
\* pass runs no IRQ sequence
RiseA(i, irq) == IF irq /\ ~i THEN SUBSET {"irq", "nmi"} ELSE {{}}

\* the lines that may rise while the NMI sequence is ticked: none when the
\* pass from r runs no NMI sequence
RiseB(r, i, irq, nmi, rise_a) ==
    IF (nmi \/ (irq /\ ~i /\ "nmi" \in rise_a)) /\ ~r.prev_nmi
    THEN SUBSET {"irq", "nmi"} ELSE {{}}

\* the body shared by the loops of run_rsid_init_emu and run_rsid_sub_emu
\* (single_step, ticks, IRQ if pending, NMI on cur && !prev, prev = cur)
Iteration(r, in) ==
    LET r1   == [r EXCEPT !.i_flag = in.i, !.irq = in.irq, !.nmi = in.nmi,
                          !.cycles_done = @ + in.c]
        d    == IF r1.irq THEN DeliverIrqEmu(r1)
                ELSE [r |-> r1, cycles |-> 0]
        r2   == IF d.cycles > 0
                THEN [d.r EXCEPT !.cycles_done = @ + d.cycles,
                                 !.irq = @ \/ "irq" \in in.rise_a,
                                 !.nmi = @ \/ "nmi" \in in.rise_a]
                ELSE d.r
        cur  == r2.nmi
        edge == cur /\ ~r2.prev_nmi
        n    == IF edge THEN DeliverNmiEmu(r2) ELSE [r |-> r2, cycles |-> 0]
        r3   == IF edge
                THEN [n.r EXCEPT !.cycles_done = @ + n.cycles,
                                 !.irq = @ \/ "irq" \in in.rise_b,
                                 !.nmi = @ \/ "nmi" \in in.rise_b]
                ELSE n.r
    IN  [r3 EXCEPT !.prev_nmi = cur,
                   !.took = [irq |-> r1.irq /\ d.cycles > 0,
                             i_at_irq |-> r1.i_flag,
                             nmi |-> edge, i_at_nmi |-> r2.i_flag,
                             cur |-> cur, prev |-> r2.prev_nmi],
                   !.nmis = IF ~cur THEN 0 ELSE IF edge THEN @ + 1 ELSE @]

NoTook == [irq |-> FALSE, i_at_irq |-> FALSE, nmi |-> FALSE,
           i_at_nmi |-> FALSE, cur |-> FALSE, prev |-> FALSE]
NoRet == [by |-> "none"]

\* the return of run_rsid_init_emu: (init_returned, prev_nmi)
InitReturn(r, by, init_returned) ==
    [r EXCEPT !.phase = "setup",
              !.ret = [by |-> by, init_returned |-> init_returned,
                       prev_nmi |-> r.prev_nmi, line |-> r.nmi,
                       i_flag |-> r.i_flag]]

\* setup_rsid_engine after the runner without the clearing of the flag
AfterInitKeepsFlag(r, drop) ==
    [r EXCEPT !.phase = "idle", !.irq = @ /\ "irq" \notin drop,
              !.nmi = @ /\ "nmi" \notin drop,
              !.prev_nmi = r.ret.prev_nmi, !.took = NoTook,
              !.started_i = r.i_flag]

\* setup_rsid_engine after the runner: clear_stale_ints (drop: the lines it
\* lowers, "irq" when CIA1 was the line's only source and its timer A is
\* stopped, "nmi" when CIA2's timer A is stopped), the flag removed if INIT
\* did not return, PlayEngine::Rsid
AfterInit(r, drop) ==
    LET i == IF r.ret.init_returned THEN r.i_flag ELSE FALSE
    IN  [r EXCEPT !.phase = "idle", !.irq = @ /\ "irq" \notin drop,
                  !.nmi = @ /\ "nmi" \notin drop, !.i_flag = i,
                  !.prev_nmi = r.ret.prev_nmi, !.took = NoTook,
                  !.started_i = i]

\* player_loop's call of run_rsid_sub_emu that forgets the previous line
SubBeginResetsPrev(r) ==
    [r EXCEPT !.phase = "frame", !.cycles_done = 0, !.frames = @ + 1,
              !.prev_nmi = FALSE]

\* player_loop's call run_rsid_sub_emu(cpu, cycles_per_frame, prev_nmi)
SubBegin(r) ==
    [r EXCEPT !.phase = "frame", !.cycles_done = 0, !.frames = @ + 1]

\* run_rsid_init_emu, loop top: INIT is back in the idle loop
InitAtIdle ==
    /\ pc = "rsid_run"
    /\ rsid.phase = "init"
    /\ rsid.cycles_done < MaxInitCycles
    /\ rsid.at_idle
    /\ rsid' = InitReturn(rsid, "idle", TRUE)
    /\ UNCHANGED <<pc, playerVars, frameVars, chipVars, raster, port, wire, emu,
                 eval, tod, vicirq>>

\* run_rsid_init_emu, one pass of the loop; idle: the program counter is
\* idle_pc after it, ready: the readiness test holds when it is made
InitStep(in, idle, ready) ==
    /\ pc = "rsid_run"
    /\ rsid.phase = "init"
    /\ rsid.cycles_done < MaxInitCycles
    /\ ~rsid.at_idle
    /\ LET r  == [Iteration(rsid, in) EXCEPT !.at_idle = idle]
           ck == rsid.check_cycles + in.c
       IN  rsid' = IF ck >= ReadyCheckCycles
                   THEN IF ready
                        THEN InitReturn([r EXCEPT !.check_cycles = 0],
                                        "ready", FALSE)
                        ELSE [r EXCEPT !.check_cycles = 0]
                   ELSE [r EXCEPT !.check_cycles = ck]
    /\ UNCHANGED <<pc, playerVars, frameVars, chipVars, raster, port, wire, emu,
                 eval, tod, vicirq>>

\* run_rsid_init_emu, loop exit: the budget is exhausted
InitExhausted ==
    /\ pc = "rsid_run"
    /\ rsid.phase = "init"
    /\ rsid.cycles_done >= MaxInitCycles
    /\ rsid' = InitReturn(rsid, "exhausted", FALSE)
    /\ UNCHANGED <<pc, playerVars, frameVars, chipVars, raster, port, wire, emu,
                 eval, tod, vicirq>>

\* setup_rsid_engine from the runner's return to PlayEngine::Rsid
SetupAfterInit(drop) ==
    /\ pc = "rsid_run"
    /\ rsid.phase = "setup"
    /\ rsid' = AfterInit(rsid, drop)
    /\ UNCHANGED <<pc, playerVars, frameVars, chipVars, raster, port, wire, emu,
                 eval, tod, vicirq>>

\* player_loop: a frame of the RSID engine begins
RsidFrameBegin ==
    /\ pc = "rsid_run"
    /\ rsid.phase = "idle"
    /\ rsid.frames < MaxRsidFrames
    /\ rsid' = SubBegin(rsid)
    /\ UNCHANGED <<pc, playerVars, frameVars, chipVars, raster, port, wire, emu,
                 eval, tod, vicirq>>

\* run_rsid_sub_emu: one pass of the loop; it returns once the frame's
\* cycles are done
SubStep(in) ==
    /\ pc = "rsid_run"
    /\ rsid.phase = "frame"
    /\ rsid.cycles_done < SubFrameCycles
    /\ LET r == Iteration(rsid, in)
       IN  rsid' = IF r.cycles_done >= SubFrameCycles
                   THEN [r EXCEPT !.phase = "idle"] ELSE r
    /\ UNCHANGED <<pc, playerVars, frameVars, chipVars, raster, port, wire, emu,
                 eval, tod, vicirq>>

\* setup_rsid_engine at the call of run_rsid_init_emu: flags as CPU::new
\* leaves them or as the trampoline's first instructions set them
RunInit ==
    /\ pc = "rsid_run"
    /\ ThreadIdle
    /\ eval = NoEval
    /\ tod = NoTod
    /\ vicirq = NoVicIrq
    /\ raster = NoRaster
    /\ port = NoPort
    /\ rsid \in [phase : {"init"}, i_flag : BOOLEAN, irq : {FALSE},
                 nmi : {FALSE}, prev_nmi : {FALSE}, cycles_done : {0},
                 check_cycles : {0}, at_idle : {FALSE}, frames : {0},
                 took : {NoTook}, nmis : {0}, ret : {NoRet},
                 started_i : {FALSE}]
    /\ wire = NoWire
    /\ emu = NoEmu

RunNext ==
    \/ InitAtIdle
    \/ \E c \in RunCycles, i \in BOOLEAN, irq \in BOOLEAN, nmi \in BOOLEAN :
         \E rise_a \in RiseA(i, irq) :
           \E rise_b \in RiseB(rsid, i, irq, nmi, rise_a),
              idle \in BOOLEAN, ready \in BOOLEAN :
               InitStep(StepInput(c, i, irq, nmi, rise_a, rise_b), idle, ready)
    \/ InitExhausted
    \/ \E drop \in SUBSET {"irq", "nmi"} : SetupAfterInit(drop)
    \/ RsidFrameBegin
    \/ \E c \in RunCycles, i \in BOOLEAN, irq \in BOOLEAN, nmi \in BOOLEAN :
         \E rise_a \in RiseA(i, irq) :
           \E rise_b \in RiseB(rsid, i, irq, nmi, rise_a) :
               SubStep(StepInput(c, i, irq, nmi, rise_a, rise_b))

RunSpec == RunInit /\ [][RunNext]_vars

\* the runners are straight-line code of the player thread: they keep running
RunLiveSpec == RunSpec /\ WF_vars(RunNext)

\* C23: in the RSID frame loop an IRQ is delivered only while the
\* interrupt-disable flag is clear; an NMI is delivered, whatever the flag,
\* exactly when the CIA2 line is asserted at this check and was not at the
\* previous one; the previous value survives frame boundaries, so a line that
\* stays asserted from check to check causes at most one NMI
C23_IrqGatedNmiOnEdge ==
    (rsid.phase \in {"frame", "idle"} /\ rsid.frames > 0) =>
        /\ rsid.took.irq => ~rsid.took.i_at_irq
        /\ rsid.took.nmi <=> (rsid.took.cur /\ ~rsid.took.prev)
        /\ rsid.nmis <= 1

\* the last pass of the second frame finds the IRQ line asserted and the flag set,
\* delivers no IRQ, and delivers an NMI on the edge of the CIA2 line
C23_Witness ==
    /\ rsid.phase = "idle"
    /\ rsid.frames = 2
    /\ rsid.cycles_done >= SubFrameCycles
    /\ rsid.took.i_at_irq
    /\ rsid.irq
    /\ ~rsid.took.irq
    /\ rsid.took.nmi
    /\ rsid.took.i_at_nmi

\* what the INIT runner may leave when its budget runs out
InitBudgetKept ==
    rsid.phase # "None" =>
        /\ rsid.phase = "init" =>
               rsid.cycles_done < MaxInitCycles + 8 + 2 * INT_CYCLES
        /\ (rsid.phase = "setup" /\ rsid.ret.by = "exhausted") =>
               rsid.cycles_done >= MaxInitCycles
        /\ (rsid.ret.by = "exhausted") =>
               /\ ~rsid.ret.init_returned
               /\ rsid.ret.prev_nmi = rsid.ret.line
        /\ (rsid.phase \in {"idle", "frame"} /\ ~rsid.ret.init_returned) =>
               ~rsid.started_i

\* C24: the RSID INIT runner always terminates, no pass starting at or
\* beyond its cycle budget; when the budget runs out it returns
\* init_returned = false with the NMI line as it then is, after which the
\* interrupt-disable flag is cleared and the frame loop starts
C24_InitRunnerTerminates ==
    /\ []InitBudgetKept
    /\ (rsid.phase = "init") ~> (rsid.phase = "frame")

\* INIT ran out of budget with the flag set and the NMI line asserted, and
\* the frame loop runs with the flag cleared
C24_Witness ==
    /\ rsid.phase = "frame"
    /\ rsid.ret.by = "exhausted"
    /\ rsid.ret.i_flag
    /\ rsid.ret.line
    /\ ~rsid.started_i

---------------------------------------------------------------------------
(***************************************************************************)
(* The bridge client (usb_bridge.rs, BridgeDevice) and the usbsid-bridge   *)
(* daemon (bin/usbsid-bridge.rs) over their Unix socket.  wire.c2d is the  *)
(* byte stream to the daemon, wire.d2c the responses on their way back.    *)
(* A connection is accepted when the daemon is back in its accept loop     *)
(* (the listener's backlog is left out).  c_sent, d_done, the serials,     *)
(* got and last are history.                                               *)
(***************************************************************************)

CMD_INIT == 1
CMD_CLOCK == 2
CMD_RESET == 3
CMD_STEREO == 4
CMD_WRITE == 5
CMD_MUTE == 7
CMD_CLOSE == 8
CMD_RING == 9
CMD_FLUSH == 10
CMD_QUIT == 255
OP_CYCLED_WRITE == 2
MAX_PAIRS_PER_PACKET == 15

\* the write of entry k of a frame handed to ring_cycled: (cycles, reg, val);
\* the bytes on the wire take the values of command codes too
RingWrite(k) == <<256 * (k % 4) + CMD_FLUSH, k % 32, (k * 9) % 256>>
RingWrites(n) == [k \in 1..n |-> RingWrite(k)]

RECURSIVE RingBytes(_)
\* BridgeDevice::ring_cycled: CMD_RING reg val cycles_hi cycles_lo per write
RingBytes(ws) ==
    IF ws = <<>> THEN <<>>
    ELSE <<CMD_RING, Head(ws)[2], Head(ws)[3], Head(ws)[1] \div 256,
           Head(ws)[1] % 256>> \o RingBytes(Tail(ws))

\* the sink operations of the player: [op, ...]
SinkOps ==
    {[op |-> o] : o \in {"init", "reset", "flush", "mute", "close",
                         "shutdown"}}
    \cup {[op |-> "set_clock_rate", is_pal |-> TRUE],
          [op |-> "set_stereo", mode |-> 1],
          [op |-> "write", reg |-> CMD_CLOSE, val |-> CMD_INIT]}
    \cup {[op |-> "ring_cycled", n |-> n] :
              n \in {0, 1, MAX_PAIRS_PER_PACKET + 1}}

\* impl SidDevice for BridgeDevice: the bytes an operation writes
ClientBytes(o) ==
    CASE o.op = "init" -> <<CMD_INIT>>
      [] o.op = "set_clock_rate" -> <<CMD_CLOCK, IF o.is_pal THEN 1 ELSE 0>>
      [] o.op = "reset" -> <<CMD_RESET>>
      [] o.op = "set_stereo" -> <<CMD_STEREO, o.mode>>
      [] o.op = "write" -> <<CMD_WRITE, o.reg, o.val>>
      [] o.op = "ring_cycled" ->
           IF o.n = 0 THEN <<>>
           ELSE RingBytes(RingWrites(o.n)) \o <<CMD_FLUSH>>
      [] o.op = "flush" -> <<CMD_FLUSH>>
      [] o.op = "mute" -> <<CMD_MUTE>>
      [] o.op = "close" -> <<CMD_CLOSE>>
      [] o.op = "shutdown" -> <<CMD_QUIT>>

\* mute taken as an operation that does not wait for a response
ClientReadsNoMute(o) ==
    o.op \in {"init", "set_clock_rate", "reset", "set_stereo", "close"}

\* impl SidDevice for BridgeDevice: the operations that call read_response
ClientReads(o) ==
    o.op \in {"init", "set_clock_rate", "reset", "set_stereo", "mute",
              "close"}

\* the commands an operation writes (1 for each but ring_cycled)
ClientCommands(o) == IF o.op = "ring_cycled" /\ o.n > 0 THEN o.n + 1
                     ELSE IF o.op = "ring_cycled" THEN 0 ELSE 1

\* handle_client: the bytes read_exact takes after the command byte
PayloadLen(c) ==
    CASE c = CMD_CLOCK -> 1
      [] c = CMD_STEREO -> 1
      [] c = CMD_WRITE -> 2
      [] c = CMD_RING -> 4
      [] OTHER -> 0

RECURSIVE ChunksOf(_, _)
\* slice::chunks(n)
ChunksOf(s, n) ==
    IF Len(s) = 0 THEN <<>>
    ELSE IF Len(s) <= n THEN <<s>>
    ELSE <<SubSeq(s, 1, n)>> \o ChunksOf(SubSeq(s, n + 1, Len(s)), n)

RECURSIVE Records(_)
\* the records of a chunk: reg, val, cycles_hi, cycles_lo each
Records(chunk) ==
    IF chunk = <<>> THEN <<>>
    ELSE <<Head(chunk)[1], Head(chunk)[2], Head(chunk)[3] \div 256,
           Head(chunk)[3] % 256>> \o Records(Tail(chunk))

\* flush_ring_buf with 16 records to a packet
FlushRingBufWide(ring_buf) ==
    LET chunks == ChunksOf(ring_buf, MAX_PAIRS_PER_PACKET + 1)
    IN  [i \in 1..Len(chunks) |->
            <<(OP_CYCLED_WRITE * 64 + Len(chunks[i]) * 4) % 256>>
            \o Records(chunks[i])]

\* flush_ring_buf: the packets handed to single_write, in order
FlushRingBuf(ring_buf) ==
    LET chunks == ChunksOf(ring_buf, MAX_PAIRS_PER_PACKET)
    IN  [i \in 1..Len(chunks) |->
            <<OP_CYCLED_WRITE * 64 + Len(chunks[i]) * 4>>
            \o Records(chunks[i])]

\* the clean-up without the reset
CleanUpNoReset == <<"mute", "close">>

\* the clean-up of a device: mute, reset, close
CleanUp == <<"mute", "reset", "close">>

\* handle_client, one command c with payload b; ok: UsbSid::init succeeds.
\* [dev, ring_buf, usb (device calls, packets included), resp, quit]
HandleCommand(dev, ring_buf, c, b, ok) ==
    LET same == [dev |-> dev, ring_buf |-> ring_buf, usb |-> <<>>,
                 resp |-> "none", quit |-> FALSE]
    IN  CASE c = CMD_INIT ->
               IF dev THEN [same EXCEPT !.resp = "ok"]
               ELSE IF ok THEN [same EXCEPT !.dev = TRUE, !.resp = "ok",
                                            !.usb = <<"init">>]
               ELSE [same EXCEPT !.resp = "err", !.usb = <<"init">>]
          [] c = CMD_CLOCK ->
               [same EXCEPT !.resp = "ok",
                   !.usb = IF dev THEN <<"set_clock_rate">> ELSE <<>>]
          [] c = CMD_RESET ->
               [same EXCEPT !.resp = "ok",
                   !.usb = IF dev THEN <<"reset">> ELSE <<>>]
          [] c = CMD_STEREO ->
               [same EXCEPT !.resp = "ok",
                   !.usb = IF dev THEN <<"set_stereo">> ELSE <<>>]
          [] c = CMD_WRITE ->
               [same EXCEPT !.usb = IF dev THEN <<"write">> ELSE <<>>]
          [] c = CMD_RING ->
               [same EXCEPT !.ring_buf =
                   Append(@, <<b[1], b[2], b[3] * 256 + b[4]>>)]
          [] c = CMD_FLUSH ->
               [same EXCEPT !.ring_buf = <<>>,
                   !.usb = IF dev THEN FlushRingBuf(ring_buf) ELSE <<>>]
          [] c = CMD_MUTE ->
               [same EXCEPT !.resp = "ok",
                   !.usb = IF dev THEN <<"mute">> ELSE <<>>]
          [] c = CMD_CLOSE ->
               [same EXCEPT !.dev = FALSE, !.resp = "ok",
                   !.ring_buf = IF dev THEN <<>> ELSE @,
                   !.usb = IF dev THEN FlushRingBuf(ring_buf) \o CleanUp
                           ELSE <<>>]
          [] c = CMD_QUIT ->
               [same EXCEPT !.quit = TRUE,
                   !.ring_buf = IF dev THEN <<>> ELSE @,
                   !.usb = IF dev THEN FlushRingBuf(ring_buf) \o CleanUp
                           ELSE <<>>]
          [] OTHER -> same

NoLast == [cmd |-> 0, dev |-> FALSE, buf |-> <<>>, usb |-> <<>>,
           resp |-> "none", eof |-> FALSE]
NoGot == [serial |-> 0, awaited |-> 0]

\* BridgeDevice::connect, accepted by run's loop: handle_client starts
Connect ==
    /\ pc = "wire"
    /\ wire.conn = "none"
    /\ ~wire.serving
    /\ wire.clients < MaxClients
    /\ wire' = [wire EXCEPT !.conn = "open", !.serving = TRUE,
                            !.clients = @ + 1, !.c2d = <<>>, !.d2c = <<>>,
                            !.awaiting = 0, !.dev = FALSE,
                            !.ring_buf = <<>>, !.lastop = "none",
                            !.c_sent = 0, !.d_done = 0, !.got = NoGot]
    /\ UNCHANGED <<pc, playerVars, frameVars, chipVars, raster, port, rsid, emu,
                 eval, tod, vicirq>>

\* a sink operation of BridgeDevice up to its read_response; shutdown
\* leaves the stream open.  Once the daemon has closed its end the write
\* fails, which send_cmd ignores
ClientOp(o) ==
    /\ pc = "wire"
    /\ wire.conn = "open"
    /\ wire.awaiting = 0
    /\ wire.ops < MaxOps
    /\ wire' = [wire EXCEPT
           !.ops = @ + 1,
           !.lastop = o.op,
           !.c2d = IF wire.serving THEN @ \o ClientBytes(o) ELSE @,
           !.c_sent = @ + ClientCommands(o),
           !.awaiting = IF ClientReads(o) THEN wire.c_sent + 1 ELSE 0]
    /\ UNCHANGED <<pc, playerVars, frameVars, chipVars, raster, port, rsid, emu,
                 eval, tod, vicirq>>

\* impl Drop for BridgeDevice: shutdown once more, then the stream closes
ClientDrop ==
    /\ pc = "wire"
    /\ wire.conn = "open"
    /\ wire.awaiting = 0
    /\ wire' = [wire EXCEPT
           !.lastop = "drop",
           !.c2d = IF wire.serving THEN @ \o <<CMD_QUIT>> ELSE @,
           !.c_sent = @ + 1,
           !.conn = IF wire.serving THEN "dropped" ELSE "none"]
    /\ UNCHANGED <<pc, playerVars, frameVars, chipVars, raster, port, rsid, emu,
                 eval, tod, vicirq>>

\* BridgeDevice::read_response returns with the daemon's response
ClientReadResponse ==
    /\ pc = "wire"
    /\ wire.conn = "open"
    /\ wire.awaiting # 0
    /\ wire.d2c # <<>>
    /\ wire' = [wire EXCEPT !.d2c = Tail(@), !.awaiting = 0,
                            !.got = [serial |-> Head(wire.d2c).serial,
                                     awaited |-> wire.awaiting]]
    /\ UNCHANGED <<pc, playerVars, frameVars, chipVars, raster, port, rsid, emu,
                 eval, tod, vicirq>>

\* BridgeDevice::read_response fails: the daemon has closed its end and no
\* response is left to read
ClientReadEof ==
    /\ pc = "wire"
    /\ wire.conn = "open"
    /\ wire.awaiting # 0
    /\ wire.d2c = <<>>
    /\ ~wire.serving
    /\ wire' = [wire EXCEPT !.awaiting = 0]
    /\ UNCHANGED <<pc, playerVars, frameVars, chipVars, raster, port, rsid, emu,
                 eval, tod, vicirq>>

\* the client's process ends without Drop: the stream closes, no CMD_QUIT
ClientDisconnect ==
    /\ pc = "wire"
    /\ wire.conn = "open"
    /\ wire' = [wire EXCEPT !.conn = IF wire.serving THEN "dropped" ELSE "none",
                            !.awaiting = 0]
    /\ UNCHANGED <<pc, playerVars, frameVars, chipVars, raster, port, rsid, emu,
                 eval, tod, vicirq>>

\* handle_client: one pass of the loop with a whole command read; on
\* CMD_QUIT the loop is left, the clean-up after it runs and the daemon's
\* end of the stream closes with what was not read
DaemonCommand(ok) ==
    /\ pc = "wire"
    /\ wire.serving
    /\ wire.c2d # <<>>
    /\ Len(wire.c2d) >= 1 + PayloadLen(Head(wire.c2d))
    /\ LET c == Head(wire.c2d)
           n == PayloadLen(c)
           h == HandleCommand(wire.dev, wire.ring_buf, c,
                              SubSeq(wire.c2d, 2, 1 + n), ok)
           after == IF h.quit /\ h.dev THEN CleanUp ELSE <<>>
       IN  wire' = [wire EXCEPT
               !.c2d = IF h.quit THEN <<>> ELSE SubSeq(@, 2 + n, Len(@)),
               !.d_done = @ + 1,
               !.d2c = IF h.resp = "none" \/ wire.conn # "open" THEN @
                       ELSE Append(@, [resp |-> h.resp,
                                       serial |-> wire.d_done + 1]),
               !.dev = h.dev /\ ~h.quit,
               !.ring_buf = h.ring_buf,
               !.serving = ~h.quit,
               !.conn = IF h.quit /\ @ = "dropped" THEN "none" ELSE @,
               !.last = [cmd |-> c, dev |-> wire.dev, buf |-> wire.ring_buf,
                         usb |-> h.usb \o after, resp |-> h.resp,
                         eof |-> FALSE]]
    /\ UNCHANGED <<pc, playerVars, frameVars, chipVars, raster, port, rsid, emu,
                 eval, tod, vicirq>>

\* handle_client: read_exact fails on the closed stream; the loop is left,
\* the clean-up runs and run's loop accepts again
DaemonEof ==
    /\ pc = "wire"
    /\ wire.serving
    /\ wire.conn = "dropped"
    /\ IF wire.c2d = <<>> THEN TRUE
       ELSE Len(wire.c2d) < 1 + PayloadLen(Head(wire.c2d))
    /\ wire' = [wire EXCEPT
           !.c2d = <<>>, !.d2c = <<>>, !.dev = FALSE, !.serving = FALSE,
           !.conn = "none",
           !.last = [cmd |-> 0, dev |-> wire.dev, buf |-> wire.ring_buf,
                     usb |-> IF wire.dev THEN CleanUp ELSE <<>>,
                     resp |-> "none", eof |-> TRUE]]
    /\ UNCHANGED <<pc, playerVars, frameVars, chipVars, raster, port, rsid, emu,
                 eval, tod, vicirq>>

\* run: the socket bound, the daemon in its accept loop, no client yet
WireInit ==
    /\ pc = "wire"
    /\ ThreadIdle
    /\ eval = NoEval
    /\ tod = NoTod
    /\ vicirq = NoVicIrq
    /\ raster = NoRaster
    /\ port = NoPort
    /\ rsid = NoRsid
    /\ wire = [conn |-> "none", serving |-> FALSE, clients |-> 0, ops |-> 0,
               lastop |-> "none", c2d |-> <<>>, d2c |-> <<>>, awaiting |-> 0,
               c_sent |-> 0,
               d_done |-> 0, got |-> NoGot, dev |-> FALSE,
               ring_buf |-> <<>>, last |-> NoLast]
    /\ emu = NoEmu

WireNext ==
    \/ Connect
    \/ \E o \in SinkOps : ClientOp(o)
    \/ ClientDrop
    \/ ClientReadResponse
    \/ ClientReadEof
    \/ ClientDisconnect
    \/ \E ok \in BOOLEAN : DaemonCommand(ok)
    \/ DaemonEof

WireSpec == WireInit /\ [][WireNext]_vars

RECURSIVE Concat(_)
Concat(ss) == IF ss = <<>> THEN <<>> ELSE Head(ss) \o Concat(Tail(ss))

\* C25: with a device open, CMD_FLUSH hands to the device every buffered
\* CMD_RING entry once and in arrival order, in packets of at most 15
\* four-byte records (reg, val, cycles_hi, cycles_lo) headed by the byte
\* (2<<6) | (4 x records of the packet), and leaves the buffer empty
C25_FlushSendsBufferInPackets ==
    (wire.last.cmd = CMD_FLUSH /\ wire.last.dev) =>
        LET pk == wire.last.usb
        IN  /\ \A i \in 1..Len(pk) :
                  /\ (Len(pk[i]) - 1) % 4 = 0
                  /\ (Len(pk[i]) - 1) \div 4 \in 1..15
                  /\ pk[i][1] = 128 + (Len(pk[i]) - 1)
            /\ Concat([i \in 1..Len(pk) |-> Tail(pk[i])])
                   = Records(wire.last.buf)
            /\ wire.ring_buf = <<>>

\* a flush of sixteen entries went out as two packets
C25_Witness ==
    /\ wire.last.cmd = CMD_FLUSH
    /\ wire.last.dev
    /\ Len(wire.last.buf) = 16
    /\ Len(wire.last.usb) = 2

\* C26: when the client's stream ends without CMD_QUIT while a device is
\* open, the daemon mutes, resets and closes the device and is back in its
\* accept loop for the next client
C26_DisconnectCleansUp ==
    (wire.last.eof /\ wire.last.dev) =>
        /\ wire.last.usb = <<"mute", "reset", "close">>
        /\ wire.conn = "none" => (~wire.dev /\ ~wire.serving)
        /\ wire.conn = "none" /\ wire.clients < MaxClients => ENABLED Connect

\* the second client is served after the first one's device was cleaned up
C26_Witness ==
    /\ wire.last.eof
    /\ wire.last.dev
    /\ wire.last.usb = <<"mute", "reset", "close">>
    /\ wire.clients = 2
    /\ wire.serving

\* C27: the daemon answers CMD_INIT, CMD_CLOCK, CMD_RESET, CMD_STEREO,
\* CMD_MUTE and CMD_CLOSE with one response each and CMD_WRITE, CMD_RING,
\* CMD_FLUSH and CMD_QUIT with none; the client waits for one response
\* after each of the former and none after the latter, so each response it
\* reads is the one of the command it has just sent; once the daemon has
\* left the connection on CMD_QUIT the client's reads fail
C27_OneResponsePerAnsweredCommand ==
    /\ wire.last.cmd # 0 =>
           (wire.last.resp # "none" <=>
               wire.last.cmd \in {CMD_INIT, CMD_CLOCK, CMD_RESET,
                                  CMD_STEREO, CMD_MUTE, CMD_CLOSE})
    /\ wire.last.cmd \in {CMD_WRITE, CMD_RING, CMD_FLUSH, CMD_QUIT} =>
           wire.last.resp = "none"
    /\ wire.awaiting # 0 =>
           wire.lastop \in {"init", "set_clock_rate", "reset", "set_stereo",
                            "mute", "close"}
    /\ (wire.conn = "open" /\ wire.serving /\ wire.awaiting = 0) =>
           /\ wire.d2c = <<>>
           /\ wire.lastop \in {"init", "set_clock_rate", "reset",
                                "set_stereo", "mute", "close"} =>
                  wire.got.awaited = wire.c_sent
    /\ wire.conn = "open" =>
           /\ Len(wire.d2c) <= 1
           /\ wire.d2c # <<>> => Head(wire.d2c).serial = wire.awaiting
    /\ wire.got.serial = wire.got.awaited

\* a response was read for a command sent after a whole frame of ring
\* writes and its flush
C27_Witness ==
    /\ wire.got.serial > MAX_PAIRS_PER_PACKET + 2
    /\ wire.got.serial = wire.got.awaited
    /\ wire.last.resp = "ok"

---------------------------------------------------------------------------
(***************************************************************************)
(* The emulated sink (sid_emulated.rs).  The player thread calls the sink  *)
(* operations; the audio callback runs on the audio thread.  Both take the *)
(* mutex of audio_buf: emu.p and emu.a are the positions of the two        *)
(* threads ("want": at lock(), "held": inside the critical section).       *)
(* A stereo pair is the serial number of its generation, 0 is silence.     *)
(* The number of samples reSID returns for a clock is an input.  The       *)
(* player calls ring_cycled at most once before each flush.  frames, done  *)
(* and out are history.                                                    *)
(***************************************************************************)

SatSub(a, b) == IF a > b THEN a - b ELSE 0

\* the deltas of the batches handed to ring_cycled
EmuBatches == {<<>>, <<0>>, <<19000>>, <<19000, 705>>}

PIdle == [at |-> "idle", what |-> "none", n |-> 0]
NoDone == [valid |-> FALSE, ring |-> 0, flush |-> 0, cpf |-> 0]
NoOut == [valid |-> FALSE, data |-> <<>>]

\* clock_and_push without the limit of the room
PushAll(ring, first, n) == ring \o [i \in 1..n |-> first + i - 1]

\* clock_and_push: room = MAX_BUFFER_SAMPLES - len, count = min(n, room),
\* the first count samples are pushed at the back
PushRoom(ring, first, n) ==
    LET room == SatSub(MaxBufferSamples, Len(ring))
        count == IF n < room THEN n ELSE room
    IN  ring \o [i \in 1..count |-> first + i - 1]

\* the callback filling its frames from the back of the ring
FillFromBack(ring, frames) ==
    [f \in 1..frames |-> IF f <= Len(ring) THEN ring[Len(ring) + 1 - f]
                         ELSE 0]

\* the callback: pop_front for each output frame, silence when empty
FillFrames(ring, frames) ==
    [f \in 1..frames |-> IF f <= Len(ring) THEN ring[f] ELSE 0]

\* what is left of the ring after the callback took its frames
AfterFill(ring, frames) ==
    IF frames >= Len(ring) THEN <<>>
    ELSE SubSeq(ring, frames + 1, Len(ring))

\* flush prints its diagnostic on every DIAG_FRAMES-th call, the first one
\* included
DIAG_FRAMES == 250

\* the end of flush: the accumulator is reset
FlushReturn(e) ==
    [e EXCEPT !.job = <<>>,
              !.cycles_this_frame = 0,
              !.rung = FALSE,
              !.frames = @ + 1,
              !.acc = [ring |-> 0, flush |-> 0],
              !.done = [valid |-> TRUE, ring |-> e.acc.ring,
                        flush |-> Head(e.job).d,
                        cpf |-> e.cycles_per_frame]]

\* the head of emu.job has been clocked: ring_cycled adds the delta to
\* cycles_this_frame and goes on; flush counts the frame and, when the
\* diagnostic is due, is at the lock() that reads the length of the ring
Clocked(e) ==
    LET j == Head(e.job)
        counted == [e EXCEPT !.frame_counter = @ + 1]
    IN  IF j.k = "clock"
        THEN [e EXCEPT !.job = Tail(@),
                       !.cycles_this_frame = @ + j.d,
                       !.acc = [@ EXCEPT !.ring = @ + j.d]]
        ELSE IF counted.frame_counter % DIAG_FRAMES = 1
        THEN [counted EXCEPT !.p = [at |-> "want", what |-> "len", n |-> 0]]
        ELSE FlushReturn(counted)

\* EmulatedDevice::set_clock_rate
EmuSetClockRate(is_pal) ==
    /\ pc = "emu"
    /\ emu.p.at = "idle" /\ emu.job = <<>> /\ ~emu.rung
    /\ emu' = [emu EXCEPT !.cycles_per_frame =
                   IF is_pal THEN PAL_CYCLES_PER_FRAME
                   ELSE NTSC_CYCLES_PER_FRAME]
    /\ UNCHANGED <<pc, playerVars, frameVars, chipVars, raster, port, rsid, wire,
                 eval, tod, vicirq>>

\* EmulatedDevice::ring_cycled is entered with the frame's batch
EmuRingCycled(ws) ==
    /\ pc = "emu"
    /\ emu.p.at = "idle" /\ emu.job = <<>> /\ ~emu.rung
    /\ emu.frames < MaxEmuFrames
    /\ emu' = [emu EXCEPT !.rung = TRUE,
                          !.job = [i \in 1..Len(ws) |->
                                      [k |-> "clock", d |-> ws[i]]]]
    /\ UNCHANGED <<pc, playerVars, frameVars, chipVars, raster, port, rsid, wire,
                 eval, tod, vicirq>>

\* EmulatedDevice::flush is entered: remaining is computed
EmuFlush ==
    /\ pc = "emu"
    /\ emu.p.at = "idle" /\ emu.job = <<>>
    /\ emu.frames < MaxEmuFrames
    /\ emu' = [emu EXCEPT !.job =
                   <<[k |-> "flush",
                      d |-> SatSub(emu.cycles_per_frame,
                                   emu.cycles_this_frame)]>>]
    /\ UNCHANGED <<pc, playerVars, frameVars, chipVars, raster, port, rsid, wire,
                 eval, tod, vicirq>>

\* the next clock of ring_cycled or flush: clock_and_push up to its lock();
\* n: the samples clock_sid collects for the delta
ClockAndPush(n) ==
    /\ pc = "emu"
    /\ emu.p.at = "idle" /\ emu.job # <<>>
    /\ emu' = IF Head(emu.job).d = 0 \/ n = 0 THEN Clocked(emu)
              ELSE [emu EXCEPT !.p = [at |-> "want", what |-> "push",
                                      n |-> n]]
    /\ UNCHANGED <<pc, playerVars, frameVars, chipVars, raster, port, rsid, wire,
                 eval, tod, vicirq>>

\* EmulatedDevice::mute and ::reset up to their lock()
EmuClear(op) ==
    /\ pc = "emu"
    /\ emu.p.at = "idle" /\ emu.job = <<>> /\ ~emu.rung
    /\ emu' = [emu EXCEPT !.cycles_this_frame = 0,
                          !.p = [at |-> "want", what |-> "clear", n |-> 0]]
    /\ UNCHANGED <<pc, playerVars, frameVars, chipVars, raster, port, rsid, wire,
                 eval, tod, vicirq>>

\* the player thread gets the mutex of audio_buf
PlayerLock ==
    /\ pc = "emu"
    /\ emu.p.at = "want"
    /\ emu.a.at # "held"
    /\ emu' = [emu EXCEPT !.p = [@ EXCEPT !.at = "held"]]
    /\ UNCHANGED <<pc, playerVars, frameVars, chipVars, raster, port, rsid, wire,
                 eval, tod, vicirq>>

\* the player's critical section: the push of clock_and_push, the length
\* read for flush's diagnostic, or the clear of mute and reset; the guard
\* is released
PlayerUnlock ==
    /\ pc = "emu"
    /\ emu.p.at = "held"
    /\ emu' =
         IF emu.p.what = "push"
         THEN LET ring == PushRoom(emu.ring, emu.next, emu.p.n)
              IN  Clocked([emu EXCEPT
                      !.ring = ring,
                      !.next = @ + emu.p.n,
                      !.p = PIdle])
         ELSE IF emu.p.what = "len"
         THEN FlushReturn([emu EXCEPT !.p = PIdle])
         ELSE [emu EXCEPT !.ring = <<>>, !.p = PIdle]
    /\ UNCHANGED <<pc, playerVars, frameVars, chipVars, raster, port, rsid, wire,
                 eval, tod, vicirq>>

\* cpal calls the output callback for a buffer of frames: it is at lock()
CallbackInvoke(frames) ==
    /\ pc = "emu"
    /\ emu.a.at = "idle"
    /\ emu' = [emu EXCEPT !.a = [at |-> "want", frames |-> frames]]
    /\ UNCHANGED <<pc, playerVars, frameVars, chipVars, raster, port, rsid, wire,
                 eval, tod, vicirq>>

\* the callback gets the mutex of audio_buf
CallbackLock ==
    /\ pc = "emu"
    /\ emu.a.at = "want"
    /\ emu.p.at # "held"
    /\ emu' = [emu EXCEPT !.a = [@ EXCEPT !.at = "held"]]
    /\ UNCHANGED <<pc, playerVars, frameVars, chipVars, raster, port, rsid, wire,
                 eval, tod, vicirq>>

\* the callback's loop over its frames; the guard is released
CallbackFill ==
    /\ pc = "emu"
    /\ emu.a.at = "held"
    /\ emu' = [emu EXCEPT
           !.ring = AfterFill(@, emu.a.frames),
           !.out = [valid |-> TRUE,
                    data |-> FillFrames(emu.ring, emu.a.frames)],
           !.a = [at |-> "idle", frames |-> 0]]
    /\ UNCHANGED <<pc, playerVars, frameVars, chipVars, raster, port, rsid, wire,
                 eval, tod, vicirq>>

\* EmulatedDevice::open: PAL, an empty ring, the audio stream playing
EmuInit ==
    /\ pc = "emu"
    /\ ThreadIdle
    /\ eval = NoEval
    /\ tod = NoTod
    /\ vicirq = NoVicIrq
    /\ raster = NoRaster
    /\ port = NoPort
    /\ rsid = NoRsid
    /\ wire = NoWire
    /\ emu = [cycles_per_frame |-> PAL_CYCLES_PER_FRAME,
              cycles_this_frame |-> 0, ring |-> <<>>, job |-> <<>>,
              rung |-> FALSE, p |-> PIdle,
              a |-> [at |-> "idle", frames |-> 0],
              next |-> 1, frames |-> 0, frame_counter |-> 0,
              acc |-> [ring |-> 0, flush |-> 0], done |-> NoDone,
              out |-> NoOut]

EmuNext ==
    \/ \E is_pal \in BOOLEAN : EmuSetClockRate(is_pal)
    \/ \E ws \in EmuBatches : EmuRingCycled(ws)
    \/ EmuFlush
    \/ \E n \in {0, MaxSamplesPerClock} : ClockAndPush(n)
    \/ \E op \in {"mute", "reset"} : EmuClear(op)
    \/ PlayerLock
    \/ PlayerUnlock
    \/ \E frames \in 1..MaxOutFrames : CallbackInvoke(frames)
    \/ CallbackLock
    \/ CallbackFill

EmuSpec == EmuInit /\ [][EmuNext]_vars

\* C28: in every frame the cycles clocked by ring_cycled plus the cycles
\* clocked by the following flush equal cycles_per_frame, and
\* cycles_this_frame is zero after flush
C28_FrameClocksCyclesPerFrame ==
    emu.done.valid =>
        /\ emu.done.ring + emu.done.flush = emu.done.cpf
        /\ (emu.job = <<>> /\ ~emu.rung) => emu.cycles_this_frame = 0

\* what the code keeps: a frame is clocked for the larger of
\* cycles_per_frame and the sum of its deltas
FrameClocksAtLeastCyclesPerFrame ==
    emu.done.valid =>
        /\ emu.done.ring + emu.done.flush
               = IF emu.done.ring > emu.done.cpf THEN emu.done.ring
                 ELSE emu.done.cpf
        /\ (emu.job = <<>> /\ ~emu.rung) => emu.cycles_this_frame = 0

\* C29: the ring never holds more than MAX_BUFFER_SAMPLES pairs; a step
\* either leaves it, empties it, takes pairs from its front or appends newly
\* generated pairs at its back, and a push appends only the first pairs that
\* fit the room (none when the ring is full): queued pairs are never
\* overwritten and never change their order
C29_RingBoundedProducerDrops ==
    /\ [](Len(emu.ring) <= MaxBufferSamples)
    /\ [][LET r == emu.ring
              r2 == emu'.ring
              room == MaxBufferSamples - Len(r)
              fresh(m) == [i \in 1..m |-> emu.next + i - 1]
          IN  /\ \/ r2 = r
                 \/ r2 = <<>>
                 \/ \E k \in 1..Len(r) : r2 = SubSeq(r, k + 1, Len(r))
                 \/ \E m \in 1..room : r2 = r \o fresh(m)
              /\ (emu.p.at = "held" /\ emu.p.what = "push"
                    /\ emu'.p.at # "held") =>
                     r2 = r \o fresh(IF emu.p.n < room THEN emu.p.n
                                     ELSE room)]_vars

\* the ring is full and generated pairs were dropped behind its last one
C29_Witness ==
    /\ Len(emu.ring) = MaxBufferSamples
    /\ emu.next > emu.ring[Len(emu.ring)] + 1
    /\ emu.p.at = "idle"

\* C30 as stated: the callback never waits for the player thread, and its
\* output is queued pairs followed by silence
C30_CallbackNeverWaits ==
    /\ emu.a.at = "want" => emu.p.at # "held"
    /\ emu.out.valid =>
           \A i, j \in 1..Len(emu.out.data) :
               (i < j /\ emu.out.data[i] = 0) => emu.out.data[j] = 0

\* C30: the callback waits only for the mutex of the ring, which the
\* player thread holds only across a push, a clear or a read of the length
\* that waits for nothing; with the mutex it takes the queued pairs oldest first, one for
\* each output frame, and writes silence to every frame left when the ring
\* is empty
C30_CallbackWaitsOnlyForMutex ==
    /\ []((emu.a.at = "want" /\ emu.p.at # "held") => ENABLED CallbackLock)
    /\ [](emu.p.at = "held" => ENABLED PlayerUnlock)
    /\ [](emu.a.at = "held" => ENABLED CallbackFill)
    /\ [][(emu.a.at = "held" /\ emu'.a.at = "idle") =>
             LET r == emu.ring
                 n == emu.a.frames
             IN  /\ Len(emu'.out.data) = n
                 /\ \A f \in 1..n :
                        emu'.out.data[f] = IF f <= Len(r) THEN r[f] ELSE 0
                 /\ \A i \in 1..Len(emu'.ring) : emu'.ring[i] = r[n + i]
                 /\ Len(emu'.ring) = IF Len(r) > n THEN Len(r) - n ELSE 0]_vars

\* a callback of two frames found one pair queued: the pair, then silence
C30_Witness ==
    /\ emu.out.valid
    /\ Len(emu.out.data) = 2
    /\ emu.out.data[1] # 0
    /\ emu.out.data[2] = 0

---------------------------------------------------------------------------
(***************************************************************************)
(* Functions of the program applied on their own: eval holds the inputs    *)
(* of one application and its result.                                      *)
(*                                                                         *)
(* version_check.rs.  A version string is the sequence of its components   *)
(* between the dots; a component is a sequence of characters, 0..9 the     *)
(* digits, PLUS the sign '+', LOWER_V the letter 'v' and LETTER any other  *)
(* character.                                                              *)
(***************************************************************************)

LETTER == 10
PLUS == 11
LOWER_V == 12

VersionComponents ==
    {<<0>>, <<1>>, <<0, 1>>, <<LETTER, 1>>, <<PLUS, 1>>, <<LOWER_V, 1>>}
Versions == UNION {[1..n -> VersionComponents] : n \in 1..MaxComponents}

RECURSIVE DecimalValue(_)
DecimalValue(cs) ==
    IF cs = <<>> THEN 0
    ELSE 10 * DecimalValue(SubSeq(cs, 1, Len(cs) - 1)) + cs[Len(cs)]

\* str::parse::<u32>().ok() of a component: <<n>> or <<>> (None).  One
\* leading '+' in front of at least one digit is accepted; the components
\* drawn stay far below u32::MAX
ParseU32(cs) ==
    LET digits == IF Len(cs) > 1 /\ cs[1] = PLUS THEN Tail(cs) ELSE cs
    IN  IF digits # <<>> /\ (\A i \in 1..Len(digits) : digits[i] \in 0..9)
        THEN <<DecimalValue(digits)>>
        ELSE <<>>

RECURSIVE ParseVersion(_)
\* the closure parse: split('.').filter_map(|s| s.parse().ok()).collect()
ParseVersion(v) ==
    IF v = <<>> THEN <<>>
    ELSE ParseU32(Head(v)) \o ParseVersion(Tail(v))

\* Vec::get(i).copied().unwrap_or(0), i counted from 1
GetOr0(p, i) == IF i <= Len(p) THEN p[i] ELSE 0

RECURSIVE NewerFrom(_, _, _)
\* the loop of is_newer_version from index i on
NewerFrom(lp, cp, i) ==
    IF i > Max(Len(lp), Len(cp)) THEN FALSE
    ELSE IF GetOr0(lp, i) > GetOr0(cp, i) THEN TRUE
    ELSE IF GetOr0(lp, i) < GetOr0(cp, i) THEN FALSE
    ELSE NewerFrom(lp, cp, i + 1)

\* is_newer_version answering for "not older"
IsNewerOrEqual(latest, current) ==
    ~NewerFrom(ParseVersion(current), ParseVersion(latest), 1)

\* is_newer_version(latest, current)
IsNewerVersion(latest, current) ==
    NewerFrom(ParseVersion(latest), ParseVersion(current), 1)

RECURSIVE TrimStartV(_)
\* str::trim_start_matches('v'): the string without its leading 'v's
TrimStartV(v) ==
    IF v # <<>> /\ Head(v) # <<>> /\ Head(v)[1] = LOWER_V
    THEN TrimStartV(<<Tail(Head(v))>> \o Tail(v))
    ELSE v

\* check_for_updates compares the release's version with the running one,
\* both without their leading 'v's
CompareVersions ==
    /\ pc = "eval"
    /\ eval.fn = "ready"
    /\ eval.of = "is_newer_version"
    /\ LET latest  == TrimStartV(eval.tag_name)
           current == TrimStartV(eval.current_version)
       IN  eval' = [fn |-> "is_newer_version", tag_name |-> eval.tag_name,
                    current_version |-> eval.current_version,
                    latest |-> latest, current |-> current,
                    result |-> IsNewerVersion(latest, current)]
    /\ UNCHANGED <<pc, playerVars, frameVars, chipVars, raster, port, rsid,
                   wire, emu, tod, vicirq>>

VersionInputs ==
    {[fn |-> "ready", of |-> "is_newer_version", tag_name |-> l,
      current_version |-> c] : l \in Versions, c \in Versions}

\* the value of a component that is a number: its digits, after the sign
Value(c) == DecimalValue(SelectSeq(c, LAMBDA ch : ch \in 0..9))

\* the values of the components of v that are in the set numeric, in order
ComponentsIn(v, numeric) ==
    LET RECURSIVE pick(_)
        pick(i) == IF i > Len(v) THEN <<>>
                   ELSE IF v[i] \in numeric THEN <<Value(v[i])>> \o pick(i + 1)
                   ELSE pick(i + 1)
    IN  pick(1)

\* the components made of digits only
DigitComponents == {c \in VersionComponents : \A k \in 1..Len(c) : c[k] \in 0..9}

\* the components made of digits, with or without one '+' in front
SignedComponents ==
    {c \in VersionComponents :
        \/ c \in DigitComponents
        \/ Len(c) > 1 /\ c[1] = PLUS /\ \A k \in 2..Len(c) : c[k] \in 0..9}

\* a is lexicographically greater than b, a missing component being 0
LexGreater(a, b) ==
    \E i \in 1..Max(Len(a), Len(b)) :
        /\ \A j \in 1..(i - 1) : GetOr0(a, j) = GetOr0(b, j)
        /\ GetOr0(a, i) > GetOr0(b, i)

\* C31 as stated: is_newer_version(latest, current) is true exactly when the
\* numeric components of latest, those made of digits, are lexicographically
\* greater than those of current, a missing component counting as 0; it is
\* false for equal versions and never true in both directions
C31_NewerIsLexicographicGreater ==
    eval.fn = "is_newer_version" =>
        /\ eval.result <=>
               LexGreater(ComponentsIn(eval.latest, DigitComponents),
                          ComponentsIn(eval.current, DigitComponents))
        /\ eval.latest = eval.current => ~eval.result
        /\ ~(eval.result /\ IsNewerVersion(eval.current, eval.latest))

\* C31: is_newer_version(latest, current) is true exactly when the
\* components of latest that parse as u32 (digits, with or without one '+'
\* in front) are lexicographically greater than those of current, a missing
\* component counting as 0; it is false for equal versions and never true
\* in both directions
C31_NewerIsGreaterOnParsed ==
    eval.fn = "is_newer_version" =>
        /\ eval.result <=>
               LexGreater(ComponentsIn(eval.latest, SignedComponents),
                          ComponentsIn(eval.current, SignedComponents))
        /\ eval.latest = eval.current => ~eval.result
        /\ ~(eval.result /\ IsNewerVersion(eval.current, eval.latest))

\* "+1.0" against "0.1.1": the signed component counts as 1 and decides,
\* lengths differ
C31_Witness ==
    /\ eval.fn = "is_newer_version"
    /\ eval.latest = <<<<PLUS, 1>>, <<0>>>>
    /\ eval.current = <<<<0>>, <<1>>, <<1>>>>
    /\ eval.result

\* C32: on both buses, for every program counter and every banking state,
\* the byte whose cycle count is looked up comes from the bank the CPU
\* fetches the opcode from at that address
C32_OpcodeByteIsFetchedByte ==
    (port.bus # "None" /\ port.last.op = "opcode") =>
        port.last.bank =
            IF port.bus = "C64Memory"
            THEN MemBank(port, "read", port.last.region)
            ELSE RsidBank(port, "read", port.last.region)

\* what does hold: on C64Memory the look-up at $E000-$FFFF and at
\* $A000-$BFFF reads what get_byte serves there
MemOpcodeOutsideIoIsFetchedByte ==
    (port.bus = "C64Memory" /\ port.last.op = "opcode"
                            /\ port.last.region # "io") =>
        port.last.bank = MemBank(port, "read", port.last.region)

---------------------------------------------------------------------------
(***************************************************************************)
(* The Time-of-Day clock of a core CIA (c64_emu/cia/tod.rs), ticked once   *)
(* per PHI2 cycle by Cia::tick.  The rate handed to set_period by          *)
(* C64::set_model (19704 for PAL, 17045 for NTSC) is scaled down to        *)
(* TodRates.  Of the clock the tenths and the seconds are carried: the     *)
(* runs stay below a minute and never meet the alarm.  phi2, line_ticks    *)
(* and since are history.                                                  *)
(***************************************************************************)

\* cpu_frequency / power_freq, scaled
TodRates == {TodRate, TodRate + 1}

\* Tod::new then Tod::set_period(rate)
TodNew(rate) ==
    [period |-> rate * 128, cycles |-> 0, tick_counter |-> 0,
     is_stopped |-> TRUE, tenths |-> 0, seconds |-> 0,
     rate |-> rate, phi2 |-> 0, line_ticks |-> 0, since |-> 0,
     advanced |-> 0]

\* Tod::update_counters, tenths and seconds
UpdateCounters(t) ==
    LET ts == ((t.tenths % 16) + 1) % 16
        sl == t.seconds % 16
        sh == (t.seconds \div 16) % 8
        sl2 == (sl + 1) % 16
        sh2 == (sh + 1) % 8
    IN  IF ts # 10 THEN [t EXCEPT !.tenths = ts]
        ELSE IF sl2 # 10 THEN [t EXCEPT !.tenths = 0, !.seconds = sl2 + 16 * sh]
        ELSE IF sh2 # 6 THEN [t EXCEPT !.tenths = 0, !.seconds = 16 * sh2]
        ELSE [t EXCEPT !.tenths = 0, !.seconds = 0]

\* the 3-bit ring counter: (c >> 1) | ((!c << 2) & 4)
RingNext(c) == (c \div 2) + (IF c % 2 = 0 THEN 4 ELSE 0)

\* one pass of the loop of Tod::tick: one power-line tick
LineTick(t, cra) ==
    LET u == [t EXCEPT !.line_ticks = @ + 1]
    IN  IF u.is_stopped THEN u
        ELSE IF u.tick_counter = 1 + (IF cra >= 128 THEN 2 ELSE 0)
        THEN [UpdateCounters(u) EXCEPT !.tick_counter = 0,
                                       !.advanced = u.since + 1,
                                       !.since = 0]
        ELSE [u EXCEPT !.tick_counter = RingNext(@), !.since = @ + 1]

RECURSIVE LineTicks(_, _, _)
LineTicks(t, n, cra) ==
    IF n = 0 THEN t ELSE LineTicks(LineTick(t, cra), n - 1, cra)

\* Tod::tick
TodTickOf(t, cra) ==
    LET cycles == t.cycles + t.period
        u == [t EXCEPT !.phi2 = @ + 1]
    IN  IF cycles < 128 THEN [u EXCEPT !.cycles = cycles]
        ELSE LineTicks([u EXCEPT !.cycles = cycles % 128],
                       cycles \div 128, cra)

\* Cia::tick reaches the TOD: one PHI2 cycle
TodTick(cra) ==
    /\ pc = "tod"
    /\ tod.phi2 < MaxTodCycles
    /\ tod' = TodTickOf(tod, cra)
    /\ UNCHANGED <<pc, playerVars, frameVars, chipVars, raster, port, rsid,
                   wire, emu, eval, vicirq>>

\* Tod::write of the time (CRB bit 7 clear): tenths start the clock, hours
\* stop it
TodWrite(reg, data) ==
    /\ pc = "tod"
    /\ reg \in {0, 3}
    /\ tod' = IF reg = 0
              THEN [tod EXCEPT !.tenths = data % 16,
                               !.tick_counter = IF tod.is_stopped THEN 0 ELSE @,
                               !.since = IF tod.is_stopped THEN 0 ELSE @,
                               !.is_stopped = FALSE]
              ELSE [tod EXCEPT !.is_stopped = TRUE]
    /\ UNCHANGED <<pc, playerVars, frameVars, chipVars, raster, port, rsid,
                   wire, emu, eval, vicirq>>

\* RsidBus::new: C64::set_model on the reset core
TodInit ==
    /\ pc = "tod"
    /\ ThreadIdle
    /\ raster = NoRaster
    /\ port = NoPort
    /\ rsid = NoRsid
    /\ wire = NoWire
    /\ emu = NoEmu
    /\ eval = NoEval
    /\ tod \in {TodNew(rate) : rate \in TodRates}
    /\ vicirq = NoVicIrq

TodNext ==
    \/ \E cra \in {0, 128} : TodTick(cra)
    \/ \E reg \in {0, 3}, data \in {0, 9} : TodWrite(reg, data)

TodSpec == TodInit /\ [][TodNext]_vars

\* C33: the clock receives one power-line tick every cpu_freq /
\* power_line_freq CPU cycles, and while it runs its tenths advance once
\* every 5 (CRA bit 7 set) or 6 (clear) such ticks
C33_PowerLineTickEveryPeriod ==
    /\ tod.line_ticks = tod.phi2 \div tod.rate
    /\ tod.advanced \in {0, 5, 6}

\* what the code does: every PHI2 cycle delivers cpu_freq / power_line_freq
\* power-line ticks
TodTicksPeriodTimesPerCycle ==
    tod.line_ticks = tod.phi2 * tod.rate

\* ---------------------------------------------------------------------------
\* The interrupt registers of the VIC-II (c64_emu/vic_ii/mod.rs).  The
\* compare line is register $12 plus 256 when bit 7 of register $11 is set.
\* ---------------------------------------------------------------------------

\* Mos656x::chip then reset, with the raster position
VicIrqNew(model) ==
    [chip |-> "Mos656x", lines |-> ModelData(model).raster_lines,
     cpl |-> ModelData(model).cycles_per_line, line_cycle |-> 0,
     y |-> ModelData(model).raster_lines - 1, vblanking |-> FALSE,
     cond |-> FALSE, vic |-> VicNew, r11 |-> 0, r12 |-> 0, ticks |-> 0,
     after |-> "reset"]

\* Mos656x::read_raster_line_irq
ReadRasterLineIrq(v) == v.r12 + (IF 128 \in Bits(v.r11) THEN 256 ELSE 0)

\* Mos656x::raster_y_irq_edge_detect
RasterYIrqEdgeDetect(v) ==
    LET matches == v.y = ReadRasterLineIrq(v)
    IN  [v EXCEPT !.cond = matches,
                  !.vic.irq_flags =
                      IF ~v.cond /\ matches THEN @ \cup {IRQ_RASTER} ELSE @]

\* Mos656x::check_vblank: the raster line and its edge detector
VicIrqCheckVblank(v) ==
    LET vb == v.vblanking \/ v.y = v.lines - 1
    IN  IF vb THEN [v EXCEPT !.vblanking = TRUE]
        ELSE RasterYIrqEdgeDetect([v EXCEPT !.y = v.y + 1])

\* Mos656x::vblank: line 0 begins, the edge detector runs and the interrupt
\* state is left as it was
VicIrqVblank(v) ==
    IF v.vblanking
    THEN RasterYIrqEdgeDetect([v EXCEPT !.vblanking = FALSE, !.y = 0])
    ELSE v

\* Mos656x::tick
VicIrqTickOf(v) ==
    LET lc == IF v.line_cycle + 1 >= v.cpl THEN 0 ELSE v.line_cycle + 1
        v1 == [v EXCEPT !.line_cycle = lc, !.ticks = @ + 1, !.after = "tick"]
        v2 == IF lc = 0
              THEN LET c == VicIrqCheckVblank(v1)
                   IN  [c EXCEPT !.vic = HandleIrqState(c.vic).vic]
              ELSE v1
    IN  IF lc = 1 THEN VicIrqVblank(v2) ELSE v2

\* Mos656x::write of $11, $12, $19 and $1A: regs[a] = data, then the match
\* arm
VicIrqWriteOf(v, a, data) ==
    LET v1 == [v EXCEPT !.after = "write",
                        !.r11 = IF a = 17 THEN data ELSE @,
                        !.r12 = IF a = 18 THEN data ELSE @]
        matches == v1.y = ReadRasterLineIrq(v1)
    IN  [v1 EXCEPT !.cond = IF a \in {17, 18} THEN matches ELSE @,
                   !.vic = VicWrite(v.vic, a, data,
                                    a \in {17, 18} /\ ~v.cond /\ matches).vic]

VicIrqTick ==
    /\ pc = "vicirq"
    /\ vicirq.ticks < MaxVicCycles
    /\ vicirq' = VicIrqTickOf(vicirq)
    /\ UNCHANGED <<pc, playerVars, frameVars, chipVars, raster, port, rsid,
                   wire, emu, eval, tod>>

VicIrqWrite(a, data) ==
    /\ pc = "vicirq"
    /\ vicirq' = VicIrqWriteOf(vicirq, a, data)
    /\ UNCHANGED <<pc, playerVars, frameVars, chipVars, raster, port, rsid,
                   wire, emu, eval, tod>>

\* C64::new then set_model
VicIrqInit ==
    /\ pc = "vicirq"
    /\ ThreadIdle
    /\ raster = NoRaster
    /\ port = NoPort
    /\ rsid = NoRsid
    /\ wire = NoWire
    /\ emu = NoEmu
    /\ eval = NoEval
    /\ tod = NoTod
    /\ vicirq \in {VicIrqNew("PalB"), VicIrqNew("NtscM")}

\* the register writes of a tune: the compare line below and above 256
\* (the last line is 256 + 55 on PAL, 256 + 6 on NTSC), the acknowledge and
\* the mask
VicIrqWrites ==
    ({18, 25, 26} \X {0, 1, 129})
    \cup {<<17, 27>>, <<17, 155>>, <<18, 55>>, <<18, 6>>}

VicIrqNext ==
    \/ VicIrqTick
    \/ \E w \in VicIrqWrites : VicIrqWrite(w[1], w[2])

VicIrqSpec == VicIrqInit /\ [][VicIrqNext]_vars

VicEnabledPending(vic) == vic.irq_flags \cap vic.irq_mask \cap Bits(15) # {}

\* C34: after every tick and every register write of the VIC-II, bit 7 of
\* the interrupt status is set and the interrupt line asserted exactly when
\* a pending flag is enabled by the mask
C34_IrqStateFollowsEnabledFlags ==
    (pc = "vicirq" /\ vicirq.after \in {"tick", "write"})
        => /\ (128 \in vicirq.vic.irq_flags) = VicEnabledPending(vicirq.vic)
           /\ vicirq.vic.irq_state = VicEnabledPending(vicirq.vic)

\* what the code does keep: bit 7 always equals the interrupt line, and the
\* equivalence holds after every register write and after the tick that
\* starts a line
VicIrqStateAfterHandle ==
    pc = "vicirq"
        => /\ (128 \in vicirq.vic.irq_flags) = vicirq.vic.irq_state
           /\ (vicirq.after = "write"
                 \/ (vicirq.after = "tick" /\ vicirq.line_cycle = 0))
                => vicirq.vic.irq_state = VicEnabledPending(vicirq.vic)

\* ---------------------------------------------------------------------------
\* The RSID frame loop and the VIC-II's BA line.  C64::tick_peripherals
\* stores the BA output of Mos656x::tick in old_ba_state, which the loop
\* never reads; ba is the number of an instruction's ticks during which the
\* VIC-II held BA low.
\* rsid.cpu_cycles and rsid.ba_low are history: the cycles of the
\* instructions and interrupt sequences of the frame, and the ticks of the
\* frame with BA low.
\* ---------------------------------------------------------------------------

\* run_rsid_sub_emu: one pass of the loop with the BA line of its ticks
SubStepBaOf(r, in, ba) ==
    LET n == Iteration(r, in)
        a == [n EXCEPT !.ba_low = @ + ba,
                       !.cpu_cycles = @ + (n.cycles_done - r.cycles_done)]
    IN  IF a.cycles_done >= SubFrameCycles
        THEN [a EXCEPT !.phase = "idle"] ELSE a

BaFrameBegin ==
    /\ pc = "rsid_ba"
    /\ rsid.phase = "idle"
    /\ rsid.frames < MaxRsidFrames
    /\ rsid' = [SubBegin(rsid) EXCEPT !.ba_low = 0, !.cpu_cycles = 0]
    /\ UNCHANGED <<pc, playerVars, frameVars, chipVars, raster, port, wire, emu,
                   eval, tod, vicirq>>

SubStepBa(in, ba) ==
    /\ pc = "rsid_ba"
    /\ rsid.phase = "frame"
    /\ rsid.cycles_done < SubFrameCycles
    /\ ba \in 0..in.c
    /\ rsid' = SubStepBaOf(rsid, in, ba)
    /\ UNCHANGED <<pc, playerVars, frameVars, chipVars, raster, port, wire, emu,
                   eval, tod, vicirq>>

\* PlayEngine::Rsid as setup_rsid_engine leaves it when INIT returned
BaInit ==
    /\ pc = "rsid_ba"
    /\ ThreadIdle
    /\ eval = NoEval
    /\ tod = NoTod
    /\ vicirq = NoVicIrq
    /\ raster = NoRaster
    /\ port = NoPort
    /\ \E i \in BOOLEAN :
         rsid = [ba_low |-> 0, cpu_cycles |-> 0] @@
                AfterInit(InitReturn(
                    [phase |-> "init", i_flag |-> i, irq |-> FALSE,
                     nmi |-> FALSE, prev_nmi |-> FALSE, cycles_done |-> 0,
                     check_cycles |-> 0, at_idle |-> TRUE, frames |-> 0,
                     took |-> NoTook, nmis |-> 0, ret |-> NoRet,
                     started_i |-> FALSE], "idle", TRUE), {})
    /\ wire = NoWire
    /\ emu = NoEmu

BaNext ==
    \/ BaFrameBegin
    \/ \E c \in RunCycles, i \in BOOLEAN, irq \in BOOLEAN, nmi \in BOOLEAN :
         \E rise_a \in RiseA(i, irq) :
           \E rise_b \in RiseB(rsid, i, irq, nmi, rise_a), ba \in 0..1 :
               SubStepBa(StepInput(c, i, irq, nmi, rise_a, rise_b), ba)

BaSpec == BaInit /\ [][BaNext]_vars

\* C35: in the RSID frame loop the cycles during which the VIC-II holds BA
\* low are counted as stolen: the frame's cycle accumulator holds them on
\* top of the cycles the CPU executed
C35_BaLowCyclesAreStolen ==
    (pc = "rsid_ba" /\ rsid.ba_low > 0)
        => rsid.cycles_done >= rsid.cpu_cycles + rsid.ba_low

\* what the loop does: the accumulator holds the cycles of the instructions
\* and of the interrupt sequences and nothing else
BaFrameCountsCpuCyclesOnly ==
    pc = "rsid_ba" => rsid.cycles_done = rsid.cpu_cycles

\* C36: every status published with state Playing carries a track_info, and
\* the player is never in Playing without a playback context
C36_PlayingStatusCarriesTrack ==
    /\ (published # NoStatus /\ published.state = "Playing")
          => published.has_track
    /\ state = "Playing" => play_ctx # NoCtx

\* what send_status does keep: a status carries a track exactly when a
\* context exists, with the context's elapsed time, and 0 without one
StatusTrackIsContext ==
    published # NoStatus
        => /\ published.has_track = (play_ctx # NoCtx)
           /\ published.elapsed =
                  IF play_ctx # NoCtx THEN play_ctx.elapsed ELSE 0

\* C39: after each completed frame the published elapsed time is the
\* context's frame_count times its frame_us, whatever the engine
C39_ElapsedIsFramesTimesFrameUs ==
    (published # NoStatus /\ published.has_track /\ play_ctx # NoCtx)
        => published.elapsed = play_ctx.frame_count * play_ctx.frame_us

\* the close calls among the device calls of the daemon's last step
Closes == Cardinality({i \in DOMAIN wire.last.usb : wire.last.usb[i] = "close"})

\* the last step ended the use of an open device: CMD_CLOSE, CMD_QUIT or
\* the end of the stream
SessionEnded ==
    /\ pc = "wire"
    /\ wire.last.dev
    /\ wire.last.eof \/ wire.last.cmd \in {CMD_CLOSE, CMD_QUIT}

\* C37: whichever way the session ends (CMD_CLOSE, CMD_QUIT or disconnect),
\* close is called exactly once on the device the daemon opened
C37_DeviceClosedExactlyOnce == SessionEnded => Closes = 1

\* what the daemon does: one close after CMD_CLOSE and after a disconnect,
\* two after CMD_QUIT, whose arm leaves dev set for the clean-up that follows
\* the loop
QuitClosesTwice ==
    SessionEnded =>
        Closes = IF ~wire.last.eof /\ wire.last.cmd = CMD_QUIT THEN 2 ELSE 1

\* ---------------------------------------------------------------------------
\* The capture of SID writes on the two buses (player/memory.rs,
\* player/rsid_bus.rs).  An Option is <<x>> or <<>>.
\* ---------------------------------------------------------------------------

\* setup_playback: sid_bases from the header and the sid4 option
SidBases(h, sid4_addr) ==
    <<54272>> \o (IF h.sid2 # 0 THEN <<h.sid2>> ELSE <<>>)
              \o (IF h.sid3 # 0 THEN <<h.sid3>> ELSE <<>>)
              \o (IF sid4_addr # 0 THEN <<sid4_addr>> ELSE <<>>)

\* SidMapper::map: the first range that holds addr
SidMapperMap(bases, addr) ==
    LET hits == {s \in DOMAIN bases : addr >= bases[s] /\ addr <= bases[s] + 31}
    IN  IF hits = {} THEN <<>>
        ELSE LET s == CHOOSE x \in hits : \A y \in hits : x <= y
             IN  <<((s - 1) * SID_REG_SIZE + (addr - bases[s])) % 256>>

\* C64Memory::set_byte: the register captured for a write, if any; io is
\* io_visible(ram[1])
MemSetByteCapture(bases, addr, io) ==
    IF addr < 53248 \/ addr > 57343 \/ ~io THEN <<>>
    ELSE IF addr <= 54271 \/ (addr >= 56320 /\ addr <= 56831) THEN <<>>
    ELSE IF Len(bases) = 1
    THEN IF addr >= 54272 /\ addr <= 55295 THEN <<addr % 32>> ELSE <<>>
    ELSE SidMapperMap(bases, addr)

\* RsidBus::set_byte with map_sid_write; io is write_map[0xD] == Io
RsidSetByteCapture(bases, addr, io) ==
    IF addr >= 54272 /\ addr <= 55295 /\ io
    THEN IF Len(bases) = 1 THEN <<addr % 32>> ELSE SidMapperMap(bases, addr)
    ELSE <<>>

\* the tune's write on both buses
CaptureWrite ==
    /\ pc = "eval"
    /\ eval.fn = "ready"
    /\ eval.of = "set_byte"
    /\ eval' = [fn |-> "set_byte", bases |-> eval.bases, addr |-> eval.addr,
                io |-> eval.io,
                psid |-> MemSetByteCapture(eval.bases, eval.addr, eval.io),
                rsid |-> RsidSetByteCapture(eval.bases, eval.addr, eval.io)]
    /\ UNCHANGED <<pc, playerVars, frameVars, chipVars, raster, port, rsid,
                   wire, emu, tod, vicirq>>

\* header bytes $7A and $7B and the --sid4 option: none, a base in
\* $D420-$D7E0, a base in $DE00-$DFE0
Sid2Bytes == {0, 66, 224}
Sid3Bytes == {0, 80, 240}
Sid4Addrs == {0, 54848}
ConfiguredBases ==
    {SidBases([sid2 |-> DecodeSidAddrByte(b2), sid3 |-> DecodeSidAddrByte(b3)],
              s4) : b2 \in Sid2Bytes, b3 \in Sid3Bytes, s4 \in Sid4Addrs}

SetByteInputs ==
    UNION {{[fn |-> "ready", of |-> "set_byte", bases |-> bs,
             addr |-> bs[s] + o, io |-> io] :
                s \in DOMAIN bs, o \in {0, 24, 31}, io \in BOOLEAN} :
           bs \in ConfiguredBases}

\* the slot whose window holds the address of the write
SlotOf(e) ==
    CHOOSE s \in DOMAIN e.bases : e.addr >= e.bases[s] /\ e.addr <= e.bases[s] + 31

Expected(e) == <<(SlotOf(e) - 1) * 32 + (e.addr - e.bases[SlotOf(e)])>>

\* C38: a write inside the window of a configured SID base while I/O is
\* mapped is captured with offset slot*0x20 + (addr - base), on the RSID
\* bus as on the PSID bus
C38_WriteInWindowCapturedOnBothBuses ==
    (pc = "eval" /\ eval.fn = "set_byte" /\ eval.io)
        => /\ eval.psid = Expected(eval)
           /\ eval.rsid = Expected(eval)

\* what holds: the PSID bus captures every such write, the RSID bus those
\* in $D400-$D7FF and nothing outside, and neither captures without I/O
PsidBusCapturesEveryWindow ==
    (pc = "eval" /\ eval.fn = "set_byte")
        => /\ eval.psid = IF eval.io THEN Expected(eval) ELSE <<>>
           /\ eval.rsid = IF eval.io /\ eval.addr <= 55295
                          THEN Expected(eval) ELSE <<>>

\* ---------------------------------------------------------------------------
\* The chips of the emulated sink (sid_emulated.rs) and the stereo mode
\* setup_playback selects.  A sink is [sid2, sid3]: which of the optional
\* chips exist; sid1 always does.
\* ---------------------------------------------------------------------------

\* EmulatedDevice::new, and the sink after stop_playback's set_stereo(0)
SinkNew == [sid2 |-> FALSE, sid3 |-> FALSE]

\* setup_playback: use_stereo is true, so the mode handed to set_stereo
SetupStereoMode(num_sids) == 1

\* EmulatedDevice::set_stereo
SetStereo(sink, mode) ==
    IF mode = 0 THEN [sid2 |-> FALSE, sid3 |-> FALSE]
    ELSE [sid2 |-> sink.sid2 \/ mode >= 1, sid3 |-> sink.sid3 \/ mode >= 2]

\* EmulatedDevice::write_to_sid: the chip the write is applied to, 0 if it
\* is discarded
WriteToSid(sink, reg) ==
    LET chip == reg \div SID_REG_SIZE
    IN  IF chip = 0 THEN 1
        ELSE IF chip = 1 THEN (IF sink.sid2 THEN 2 ELSE 0)
        ELSE IF chip = 2 THEN (IF sink.sid3 THEN 3 ELSE 0)
        ELSE 0

\* setup_playback's set_stereo on the sink, then a captured write of the
\* tune applied by the sink
SetupAndWrite ==
    /\ pc = "eval"
    /\ eval.fn = "ready"
    /\ eval.of = "setup_playback"
    /\ LET n    == Len(eval.bases)
           sink == SetStereo(SinkNew, SetupStereoMode(n))
       IN  eval' = [fn |-> "setup_playback", num_sids |-> n,
                    mode |-> SetupStereoMode(n), sink |-> sink,
                    reg |-> eval.reg, chip |-> WriteToSid(sink, eval.reg)]
    /\ UNCHANGED <<pc, playerVars, frameVars, chipVars, raster, port, rsid,
                   wire, emu, tod, vicirq>>

\* tunes of one to three chips and a captured write to one of their slots
SetupInputs ==
    UNION {{[fn |-> "ready", of |-> "setup_playback", bases |-> bs,
             reg |-> (s - 1) * SID_REG_SIZE + o] :
                s \in DOMAIN bs, o \in {0, 4, 24}} :
           bs \in {b \in ConfiguredBases : Len(b) <= 3}}

\* C40: for a tune of N chips (1..3) setup selects a stereo mode with N
\* chips active (mode 2 for N = 3), so every captured write to slots
\* 0..N-1 is applied to a chip by the emulated sink
C40_SetupActivatesEveryChip ==
    (pc = "eval" /\ eval.fn = "setup_playback")
        => /\ eval.num_sids = 3 => eval.mode = 2
           /\ eval.chip # 0

\* what setup does: the mode is always 1, the sink has two chips, and the
\* writes to slots 0 and 1 are applied while those to slot 2 are discarded
SetupAlwaysStereo ==
    (pc = "eval" /\ eval.fn = "setup_playback")
        => /\ eval.mode = 1
           /\ eval.sink = [sid2 |-> TRUE, sid3 |-> FALSE]
           /\ eval.chip = IF eval.reg < 2 * SID_REG_SIZE
                          THEN eval.reg \div SID_REG_SIZE + 1 ELSE 0

\* ---------------------------------------------------------------------------
\* The functions of the program applied to their inputs
\* ---------------------------------------------------------------------------

EvalInit ==
    /\ pc = "eval"
    /\ ThreadIdle
    /\ raster = NoRaster
    /\ port = NoPort
    /\ rsid = NoRsid
    /\ wire = NoWire
    /\ emu = NoEmu
    /\ eval \in VersionInputs \cup SetByteInputs \cup SetupInputs
    /\ tod = NoTod
    /\ vicirq = NoVicIrq

EvalNext ==
    \/ CompareVersions
    \/ CaptureWrite
    \/ SetupAndWrite

EvalSpec == EvalInit /\ [][EvalNext]_vars
============================================================================
